---- MODULE Spec2Model ----
(***************************************************************************)
(* Conversational onboarding bot (aiogram): the fresh-registration flow    *)
(* (app/handlers/registration.py), the legacy-upgrade flow                 *)
(* (app/handlers/legacy.py), the main-menu hand-off (app/handlers/menu.py) *)
(* and the user store (app/database/database.py, app/database/models.py).  *)
(*                                                                         *)
(* One user is modelled.  A text is a sequence of one-character strings;   *)
(* "zh" stands for one Cyrillic letter.  Optional[str] columns hold a text *)
(* or NoneStr, the Optional[date] column a <<year, month, day>> triple or  *)
(* NoneDate.                                                               *)
(***************************************************************************)
EXTENDS Integers, Sequences, FiniteSets, TLC

\* ------------------------------------------------------------------ bounds
\* number of distinguishable values of the updated_at clock
ClockTicks == 2

\* ------------------------------------------------------------- characters
LatinLetters == {"a", "b"}
CyrillicLetters == {"zh"}
Whitespace == {" ", "\t", "\n"}
Digits == {"0", "1", "2", "3", "4", "5", "6", "7", "8", "9"}
DigitChars == <<"0", "1", "2", "3", "4", "5", "6", "7", "8", "9">>

\* the character class [a-zA-Zа-яА-ЯёЁ\s-] of the name pattern
NameChars == LatinLetters \cup CyrillicLetters \cup Whitespace \cup {"-"}

NoneStr == <<"None">>
NoneDate == <<0, 0, 0>>
NoGender == "None"

\* Python truthiness of an Optional[str]: None and "" are falsy
Falsy(s) == s = NoneStr \/ s = <<>>

\* ------------------------------------------------------------ text helpers
RECURSIVE LStrip(_)
LStrip(s) ==
    IF s # <<>> /\ Head(s) \in Whitespace THEN LStrip(Tail(s)) ELSE s

RECURSIVE RStrip(_)
RStrip(s) ==
    IF s # <<>> /\ s[Len(s)] \in Whitespace
    THEN RStrip(SubSeq(s, 1, Len(s) - 1))
    ELSE s

\* str.strip()
Strip(s) == RStrip(LStrip(s))

\* message.text.strip() if message.text else ""
TextOrEmpty(t) == IF Falsy(t) THEN <<>> ELSE Strip(t)

\* re.fullmatch(r'^[a-zA-Zа-яА-ЯёЁ\s-]+$', s)
NameMatch(s) == Len(s) >= 1 /\ \A i \in 1..Len(s) : s[i] \in NameChars

\* re.sub(r'\s+', ' ', s): every maximal run of whitespace becomes one space
RECURSIVE SubWs(_)
SubWs(s) ==
    IF s = <<>> THEN <<>>
    ELSE IF Head(s) \in Whitespace
         THEN <<" ">> \o SubWs(LStrip(s))
         ELSE <<Head(s)>> \o SubWs(Tail(s))

\* re.sub(r'\s+', ' ', s).strip()
CleanName(s) == Strip(SubWs(s))

\* the email pattern with a dot anywhere after the "@"
EmailMatch_any_dot(s) ==
    \E i \in 2..Len(s) :
        /\ s[i] = "@"
        /\ \A j \in 1..Len(s) : s[j] = "@" => j = i
        /\ \E k \in (i + 1)..Len(s) : s[k] = "."

\* re.match(r'^[^@]+@[^@]+\.[^@]+$', s)
EmailMatch(s) ==
    \E i \in 2..Len(s) :
        /\ s[i] = "@"
        /\ \A j \in 1..Len(s) : s[j] = "@" => j = i
        /\ \E k \in (i + 2)..(Len(s) - 1) : s[k] = "."

\* ------------------------------------------------------------------ dates
\* today's date as date.today() / datetime.now().date() returns it
Today == <<2026, 11, 3>>

DigitVal(c) == (CHOOSE i \in 1..10 : DigitChars[i] = c) - 1

\* re.fullmatch(r'^\d{2}\.\d{2}\.\d{4}$', s)
DateShape(s) ==
    /\ Len(s) = 10
    /\ \A i \in {1, 2, 4, 5, 7, 8, 9, 10} : s[i] \in Digits
    /\ s[3] = "." /\ s[6] = "."

IsLeap(y) == (y % 4 = 0 /\ y % 100 # 0) \/ y % 400 = 0

DaysInMonth(y, m) ==
    IF m = 2 THEN (IF IsLeap(y) THEN 29 ELSE 28)
    ELSE IF m \in {4, 6, 9, 11} THEN 30 ELSE 31

\* strptime taking every day up to 31 in every month
ParseDate_any_month_length(s) ==
    LET d == 10 * DigitVal(s[1]) + DigitVal(s[2])
        m == 10 * DigitVal(s[4]) + DigitVal(s[5])
        y == 1000 * DigitVal(s[7]) + 100 * DigitVal(s[8])
             + 10 * DigitVal(s[9]) + DigitVal(s[10])
    IN  IF y >= 1 /\ m \in 1..12 /\ d >= 1 /\ d <= 31
        THEN <<y, m, d>>
        ELSE <<0, 0, 0>>

\* datetime.strptime(s, "%d.%m.%Y").date(); NoneDate stands for ValueError
ParseDate(s) ==
    LET d == 10 * DigitVal(s[1]) + DigitVal(s[2])
        m == 10 * DigitVal(s[4]) + DigitVal(s[5])
        y == 1000 * DigitVal(s[7]) + 100 * DigitVal(s[8])
             + 10 * DigitVal(s[9]) + DigitVal(s[10])
    IN  IF y >= 1 /\ m \in 1..12 /\ d >= 1 /\ d <= DaysInMonth(y, m)
        THEN <<y, m, d>>
        ELSE NoneDate

\* (a.month, a.day) < (b.month, b.day)
MonthDayLess(a, b) == a[2] < b[2] \/ (a[2] = b[2] /\ a[3] < b[3])

\* the age as the difference of the years alone
Age_years_only(today, birth) == today[1] - birth[1]

\* today.year - birth.year - ((today.month, today.day) < (birth.month, birth.day))
Age(today, birth) ==
    today[1] - birth[1] - (IF MonthDayLess(today, birth) THEN 1 ELSE 0)

\* birth > today
DateAfter(a, b) == a[1] > b[1] \/ (a[1] = b[1] /\ MonthDayLess(b, a))

\* ------------------------------------------------------------- user store
\* the mapped attributes of the User record
UserAttrs ==
    {"id", "username", "first_name", "last_name", "is_active", "created_at",
     "updated_at", "rules_accepted", "notifications_allowed", "is_registered",
     "phone_number", "full_name", "preferred_name", "gender", "birth_date",
     "email"}

\* session.get(User, user_id) found no row
NoUser == [absent |-> TRUE]

\* datetime.now(timezone.utc) as seen through updated_at: a write always
\* changes the stored timestamp
Tick(t) == (t + 1) % ClockTicks

\* hasattr(user, key)
HasAttr(u, key) == key \in DOMAIN u

\* reading user.<a> for every a of attrs succeeds; otherwise AttributeError
\* (also for user = None)
CanRead(u, attrs) == u # NoUser /\ attrs \subseteq DOMAIN u

\* update_user with setattr for every key, hasattr left out
update_user_unfiltered(u, kw) ==
    IF u = NoUser THEN NoUser
    ELSE [a \in DOMAIN u \cup DOMAIN kw |->
            IF a = "updated_at" THEN Tick(u[a])
            ELSE IF a \in DOMAIN kw THEN kw[a]
            ELSE u[a]]

\* Database.update_user(user_id, **kw): the row after the call (the store is
\* left as it is when the user is absent)
update_user(u, kw) ==
    IF u = NoUser THEN NoUser
    ELSE LET applied == {k \in DOMAIN kw : HasAttr(u, k)}
         IN  [a \in DOMAIN u \cup applied |->
                IF a = "updated_at" THEN Tick(u[a])
                ELSE IF a \in applied THEN kw[a]
                ELSE u[a]]

\* the row add_user creates, before any registration step
NewUser ==
    [id |-> 1, username |-> NoneStr, first_name |-> NoneStr,
     last_name |-> NoneStr, is_active |-> TRUE, created_at |-> 0,
     updated_at |-> 0, rules_accepted |-> FALSE,
     notifications_allowed |-> FALSE, is_registered |-> FALSE,
     phone_number |-> NoneStr, full_name |-> NoneStr,
     preferred_name |-> NoneStr, gender |-> NoGender,
     birth_date |-> NoneDate, email |-> NoneStr]

\* ---------------------------------------------------------------- events
NoContact == [user_id |-> 0, phone_number |-> <<>>]

CallbackQuery(d) ==
    [kind |-> "callback_query", data |-> d, text |-> NoneStr,
     contact |-> NoContact]

\* a text message
TextMessage(t) ==
    [kind |-> "message", data |-> "None", text |-> t, contact |-> NoContact]

\* a message carrying a contact (its text is None)
ContactMessage(uid, phone) ==
    [kind |-> "message", data |-> "None", text |-> NoneStr,
     contact |-> [user_id |-> uid, phone_number |-> phone]]

\* a message with neither text nor contact (a photo, a sticker)
PhotoMessage ==
    [kind |-> "message", data |-> "None", text |-> NoneStr,
     contact |-> NoContact]

\* callback data of the keyboards
RulesData == {"accept_rules"}
GenderData == {"gender_male", "gender_female"}
ReviewData == {"review_correct", "review_edit"}
EditData ==
    {"edit_first_name", "edit_last_name", "edit_gender", "edit_birth_date",
     "edit_email"}
NotifyData == {"notify_yes", "notify_no"}
MenuData == {"balance", "back_to_main"}
CallbackData ==
    RulesData \cup GenderData \cup ReviewData \cup EditData \cup NotifyData
    \cup MenuData \cup {"edit_cancel", "unknown"}

\* DD.MM.YYYY text of a date
TwoDigits(n) == <<DigitChars[(n \div 10) + 1], DigitChars[(n % 10) + 1]>>
DateText(d, m, y) ==
    TwoDigits(d) \o <<".">> \o TwoDigits(m) \o <<".">>
    \o TwoDigits(y \div 100) \o TwoDigits(y % 100)

\* the texts the user sends: names (plain; padded, with a hyphen, a Cyrillic
\* letter and a double space; with a digit; blank), birth dates (valid; not
\* in the calendar; age 150) and emails (valid; without a dot)
NameSamples ==
    {<<"a">>, <<" ", "zh", "-", "a", " ", " ", "b", " ">>, <<"a", "1">>,
     <<" ", "\t">>}
DateSamples ==
    {DateText(25, 12, 1990), DateText(31, 2, 2000), DateText(1, 1, 1876)}
EmailSamples == {<<"a", "@", "b", ".", "a">>, <<"a", "@", "b">>}
TextSamples == NameSamples \cup DateSamples \cup EmailSamples

PhoneSamples == {<<"+", "7", "1">>, <<"7", "2">>}

\* the sender's Telegram id and somebody else's
SenderId == NewUser.id
OtherId == NewUser.id + 1

SampleEvents ==
    {CallbackQuery(d) : d \in CallbackData}
    \cup {TextMessage(t) : t \in TextSamples}
    \cup {ContactMessage(uid, p) : uid \in {SenderId, OtherId}, p \in PhoneSamples}
    \cup {PhotoMessage}

\* ------------------------------------------------------------ FSM session
NoState == "None"

\* class Registration(StatesGroup)
REG_RULES == "Registration:waiting_for_rules_consent"
REG_CONTACT == "Registration:waiting_for_contact"
REG_FIRST_NAME == "Registration:waiting_for_first_name"
REG_LAST_NAME == "Registration:waiting_for_last_name"
REG_GENDER == "Registration:waiting_for_gender"
REG_BIRTH_DATE == "Registration:waiting_for_birth_date"
REG_EMAIL == "Registration:waiting_for_email"
REG_REVIEW == "Registration:waiting_for_review"
REG_EDIT_CHOICE == "Registration:waiting_for_edit_choice"
REG_EDIT_FIRST_NAME == "Registration:waiting_for_edit_first_name"
REG_EDIT_LAST_NAME == "Registration:waiting_for_edit_last_name"
REG_EDIT_GENDER == "Registration:waiting_for_edit_gender"
REG_EDIT_BIRTH_DATE == "Registration:waiting_for_edit_birth_date"
REG_EDIT_EMAIL == "Registration:waiting_for_edit_email"
REG_NOTIFICATIONS == "Registration:waiting_for_notifications_consent"

RegistrationStates ==
    {REG_RULES, REG_CONTACT, REG_FIRST_NAME, REG_LAST_NAME, REG_GENDER,
     REG_BIRTH_DATE, REG_EMAIL, REG_REVIEW, REG_EDIT_CHOICE,
     REG_EDIT_FIRST_NAME, REG_EDIT_LAST_NAME, REG_EDIT_GENDER,
     REG_EDIT_BIRTH_DATE, REG_EDIT_EMAIL, REG_NOTIFICATIONS}

\* class LegacyUpgrade(StatesGroup)
LEG_RULES == "LegacyUpgrade:waiting_for_rules_consent"
LEG_FIELD == "LegacyUpgrade:waiting_for_field"
LEG_REVIEW == "LegacyUpgrade:waiting_for_review"
LEG_EDIT_CHOICE == "LegacyUpgrade:waiting_for_edit_choice"
LEG_EDIT_FIELD == "LegacyUpgrade:waiting_for_edit_field"
LEG_NOTIFICATIONS == "LegacyUpgrade:waiting_for_notifications_consent"

LegacyStates ==
    {LEG_RULES, LEG_FIELD, LEG_REVIEW, LEG_EDIT_CHOICE, LEG_EDIT_FIELD,
     LEG_NOTIFICATIONS}

\* the field identifiers get_missing_fields returns, in its order
FieldOrder == <<"first_name", "last_name", "gender", "birth_date", "email">>
Fields == {FieldOrder[i] : i \in 1..Len(FieldOrder)}

\* a key the session data does not hold
NoKeySeq == <<"NoKey">>
NoKey == "NoKey"

\* state.clear(): no state, data = {}
EmptyData == [missing_fields |-> NoKeySeq, edit_field |-> NoKey]

\* data.get('missing_fields', [])
GetMissing(data) ==
    IF data.missing_fields = NoKeySeq THEN <<>> ELSE data.missing_fields

VARIABLES
    fsm_state,   \* the user's FSM state in the storage (NoState: none)
    fsm_data,    \* the user's FSM data: missing_fields, edit_field
    db_user,     \* the user's row in the users table (NoUser: no row)
    shared,      \* the storage hands out the stored list itself (memory
                 \* storage) rather than a copy (serialising storage)
    ev,          \* the update handled last
    handler,     \* the handler that took it
    outcome,     \* what the handler did with it
    raised,      \* an exception left the handler
    tasks,       \* the process_field_input calls suspended in their await
    menu_sent,   \* how many times show_main_menu sent the main menu
    other,       \* the session and the row of a second user, none of whose
                 \* updates is being handled
    db_down,     \* the users table cannot be written: update_user raises
    call,        \* the function called last outside a handler, with its
                 \* argument and its result
    inbox        \* what the user sends in this conversation: the sample
                 \* updates, or texts for one of the fields

vars ==
    <<fsm_state, fsm_data, db_user, shared, ev, handler, outcome, raised,
      tasks, menu_sent, other, db_down, call, inbox>>

\* birth-date texts: days, months and years around the limits of the
\* calendar and of the age window, and texts of another shape
DateInputs ==
    {DateText(d, m, y) : d \in {0, 3, 4, 29, 31}, m \in {2, 4, 11, 13},
                         y \in {0, 1925, 2000, 2008, 2026}}
    \cup {<<"3", ".", "1", "1", ".", "2", "0", "0", "0">>,
          <<"0", "3", "/", "1", "1", "/", "2", "0", "0", "0">>,
          <<"0", "3", ".", "1", "1", ".", "0", "0">>,
          <<" ">> \o DateText(3, 11, 2000) \o <<"\n">>,
          DateText(3, 11, 2000) \o <<"a">>,
          <<>>}

\* name texts: every text of up to two characters out of letters of both
\* alphabets, white space, the hyphen, a digit and punctuation marks, and
\* every such character between two letters
NameAlphabet == {"a", "zh", " ", "\t", "\n", "-", "1", ".", "'"}
NameInputs ==
    {<<>>}
    \cup {<<c>> : c \in NameAlphabet}
    \cup {<<c, d>> : c, d \in NameAlphabet}
    \cup {<<"a", c, "zh">> : c \in NameAlphabet}

\* email texts: a local part, zero to two "@" and a domain of up to three
\* letters and dots, and some texts padded or with more parts
EmailInputs ==
    {l \o s \o d :
        l \in {<<>>, <<"a">>, <<"a", ".">>},
        s \in {<<>>, <<"@">>, <<"@", "@">>},
        d \in {<<>>} \cup {<<c>> : c \in {"a", "."}}
              \cup {<<c, e>> : c, e \in {"a", "."}}
              \cup {<<c, e, f>> : c, e, f \in {"a", "."}}}
    \cup {<<" ", "a", "@", "a", ".", "a", "\n">>,
          <<"a", " ", "@", "a", ".", "a">>,
          <<"a", "@", "a", ".", "a", "@", "a">>,
          <<"a", "@", "a", "@", "a", ".", "a">>,
          <<"a", "@", ".", "a", ".", "a">>,
          <<" ", "\t">>}

\* phone numbers of contacts: every text of one to three characters out of
\* '+' and two digits
PhoneAlphabet == {"+", "7", "1"}
PhoneInputs ==
    {<<c>> : c \in PhoneAlphabet}
    \cup {<<c, d>> : c, d \in PhoneAlphabet}
    \cup {<<c, d, e>> : c, d, e \in PhoneAlphabet}

\* the updates of a user who goes through a flow: one valid input for every
\* step, the review confirmed, the notifications allowed; and a menu button
\* and a photo
ValidEvents ==
    {CallbackQuery(d) :
        d \in {"accept_rules", "gender_male", "review_correct", "notify_yes",
               "balance"}}
    \cup {ContactMessage(SenderId, <<"7", "2">>),
          TextMessage(<<"a">>),
          TextMessage(DateText(25, 12, 1990)),
          TextMessage(<<"a", "@", "b", ".", "a">>),
          PhotoMessage}

\* the updates the dispatcher receives
Events ==
    CASE inbox = "dates" -> {TextMessage(t) : t \in DateInputs}
      [] inbox = "names" -> {TextMessage(t) : t \in NameInputs}
      [] inbox = "emails" -> {TextMessage(t) : t \in EmailInputs}
      [] inbox = "valid" -> ValidEvents
      [] inbox = "phones" ->
            {ContactMessage(uid, p) : uid \in {SenderId, OtherId},
                                      p \in PhoneInputs}
      [] OTHER -> SampleEvents

\* --------------------------------------------------------------- validators
Ok(v) == [ok |-> TRUE, value |-> v]
Reject(none) == [ok |-> FALSE, value |-> none]

\* the name checks with the emptiness test alone
name_check_nonempty(text) ==
    IF text = <<>> THEN Reject(NoneStr)
    ELSE Ok(CleanName(text))

\* the name checks of process_first_name / process_last_name, of their edit
\* handlers and of the legacy handlers, on the stripped text
name_check(text) ==
    IF text = <<>> THEN Reject(NoneStr)
    ELSE IF ~NameMatch(text) THEN Reject(NoneStr)
    ELSE Ok(CleanName(text))

\* the birth-date checks, on the stripped text
birth_date_check(text) ==
    IF ~DateShape(text) THEN Reject(NoneDate)
    ELSE LET birth == ParseDate(text)
         IN  IF birth = NoneDate THEN Reject(NoneDate)
             ELSE IF DateAfter(birth, Today) THEN Reject(NoneDate)
             ELSE IF Age(Today, birth) < 18 THEN Reject(NoneDate)
             ELSE IF Age(Today, birth) > 100 THEN Reject(NoneDate)
             ELSE Ok(birth)

\* the email checks, on the stripped text
email_check(email) ==
    IF email = <<>> THEN Reject(NoneStr)
    ELSE IF ~EmailMatch(email) THEN Reject(NoneStr)
    ELSE Ok(email)

\* "male" if callback.data == "gender_male" else "female"
gender_value(data) == IF data = "gender_male" THEN "male" ELSE "female"

\* ------------------------------------------------------------ review screen
\* the attributes show_profile_review reads from the user
ReviewAttrs ==
    {"gender", "birth_date", "first_name_input", "last_name_input",
     "phone_number", "email"}

\* the review is shown whatever attributes the user has
show_profile_review_shown(u) == IF u = NoUser THEN "return" ELSE "review"

\* show_profile_review: "return" (no user: nothing is done), "raise" (an
\* attribute it reads does not exist), "review" (the review is shown and the
\* state set to waiting_for_review)
show_profile_review(u) ==
    IF u = NoUser THEN "return"
    ELSE IF ~CanRead(u, ReviewAttrs) THEN "raise"
    ELSE "review"

\* the FSM state after show_profile_review, from state st with review state rv
ReviewState(u, st, rv) == IF show_profile_review(u) = "review" THEN rv ELSE st
ReviewRaised(u) == show_profile_review(u) = "raise"

\* ------------------------------------------------------------- dispatching
IsCallback(e) == e.kind = "callback_query"
IsMessage(e) == e.kind = "message"

\* the routing of registration.py with the notification handler registered
\* without its state filter
RegistrationRoute_consent_unfiltered(st, e) ==
    IF st = REG_RULES /\ IsCallback(e) /\ e.data = "accept_rules"
        THEN "registration.process_rules_accept"
    ELSE IF st = REG_CONTACT /\ IsMessage(e) /\ e.contact # NoContact
        THEN "registration.process_contact"
    ELSE IF st = REG_CONTACT /\ IsMessage(e)
        THEN "registration.process_contact_invalid"
    ELSE IF st = REG_FIRST_NAME /\ IsMessage(e)
        THEN "registration.process_first_name"
    ELSE IF st = REG_LAST_NAME /\ IsMessage(e)
        THEN "registration.process_last_name"
    ELSE IF st = REG_GENDER /\ IsCallback(e) /\ e.data \in GenderData
        THEN "registration.process_gender"
    ELSE IF st = REG_BIRTH_DATE /\ IsMessage(e)
        THEN "registration.process_birth_date"
    ELSE IF st = REG_EMAIL /\ IsMessage(e)
        THEN "registration.process_email"
    ELSE IF st = REG_REVIEW /\ IsCallback(e) /\ e.data = "review_correct"
        THEN "registration.process_review_correct"
    ELSE IF st = REG_REVIEW /\ IsCallback(e) /\ e.data = "review_edit"
        THEN "registration.process_review_edit"
    ELSE IF st = REG_EDIT_CHOICE /\ IsCallback(e)
        THEN "registration.process_edit_choice"
    ELSE IF st = REG_EDIT_FIRST_NAME /\ IsMessage(e)
        THEN "registration.process_edit_first_name"
    ELSE IF st = REG_EDIT_LAST_NAME /\ IsMessage(e)
        THEN "registration.process_edit_last_name"
    ELSE IF st = REG_EDIT_GENDER /\ IsCallback(e) /\ e.data \in GenderData
        THEN "registration.process_edit_gender"
    ELSE IF st = REG_EDIT_BIRTH_DATE /\ IsMessage(e)
        THEN "registration.process_edit_birth_date"
    ELSE IF st = REG_EDIT_EMAIL /\ IsMessage(e)
        THEN "registration.process_edit_email"
    ELSE IF IsCallback(e) /\ e.data \in NotifyData
        THEN "registration.process_notifications_consent"
    ELSE "none"

\* the handler of registration.py whose filters the update passes in state st
RegistrationRoute(st, e) ==
    IF st = REG_RULES /\ IsCallback(e) /\ e.data = "accept_rules"
        THEN "registration.process_rules_accept"
    ELSE IF st = REG_CONTACT /\ IsMessage(e) /\ e.contact # NoContact
        THEN "registration.process_contact"
    ELSE IF st = REG_CONTACT /\ IsMessage(e)
        THEN "registration.process_contact_invalid"
    ELSE IF st = REG_FIRST_NAME /\ IsMessage(e)
        THEN "registration.process_first_name"
    ELSE IF st = REG_LAST_NAME /\ IsMessage(e)
        THEN "registration.process_last_name"
    ELSE IF st = REG_GENDER /\ IsCallback(e) /\ e.data \in GenderData
        THEN "registration.process_gender"
    ELSE IF st = REG_BIRTH_DATE /\ IsMessage(e)
        THEN "registration.process_birth_date"
    ELSE IF st = REG_EMAIL /\ IsMessage(e)
        THEN "registration.process_email"
    ELSE IF st = REG_REVIEW /\ IsCallback(e) /\ e.data = "review_correct"
        THEN "registration.process_review_correct"
    ELSE IF st = REG_REVIEW /\ IsCallback(e) /\ e.data = "review_edit"
        THEN "registration.process_review_edit"
    ELSE IF st = REG_EDIT_CHOICE /\ IsCallback(e)
        THEN "registration.process_edit_choice"
    ELSE IF st = REG_EDIT_FIRST_NAME /\ IsMessage(e)
        THEN "registration.process_edit_first_name"
    ELSE IF st = REG_EDIT_LAST_NAME /\ IsMessage(e)
        THEN "registration.process_edit_last_name"
    ELSE IF st = REG_EDIT_GENDER /\ IsCallback(e) /\ e.data \in GenderData
        THEN "registration.process_edit_gender"
    ELSE IF st = REG_EDIT_BIRTH_DATE /\ IsMessage(e)
        THEN "registration.process_edit_birth_date"
    ELSE IF st = REG_EDIT_EMAIL /\ IsMessage(e)
        THEN "registration.process_edit_email"
    ELSE IF st = REG_NOTIFICATIONS /\ IsCallback(e) /\ e.data \in NotifyData
        THEN "registration.process_notifications_consent"
    ELSE "none"

\* the handler of menu.py whose filter the update passes (no state filter)
MenuRoute(st, e) ==
    IF IsCallback(e) /\ e.data = "balance" THEN "menu.process_balance"
    ELSE IF IsCallback(e) /\ e.data = "back_to_main"
        THEN "menu.process_back_to_main"
    ELSE "none"

\* the handler of legacy.py whose filters the update passes in state st
LegacyRoute(st, e) ==
    IF st = LEG_RULES /\ IsCallback(e) /\ e.data = "accept_rules"
        THEN "legacy.process_rules_accept"
    ELSE IF st = LEG_FIELD /\ IsMessage(e)
        THEN "legacy.process_field_input"
    ELSE IF st = LEG_FIELD /\ IsCallback(e) /\ e.data \in GenderData
        THEN "legacy.process_gender_input"
    ELSE IF st = LEG_REVIEW /\ IsCallback(e) /\ e.data = "review_correct"
        THEN "legacy.process_review_correct"
    ELSE IF st = LEG_REVIEW /\ IsCallback(e) /\ e.data = "review_edit"
        THEN "legacy.process_review_edit"
    ELSE IF st = LEG_EDIT_CHOICE /\ IsCallback(e)
        THEN "legacy.process_edit_choice"
    ELSE IF st = LEG_EDIT_FIELD /\ IsMessage(e)
        THEN "legacy.process_edit_field"
    ELSE IF st = LEG_EDIT_FIELD /\ IsCallback(e) /\ e.data \in GenderData
        THEN "legacy.process_edit_gender"
    ELSE IF st = LEG_NOTIFICATIONS /\ IsCallback(e) /\ e.data \in NotifyData
        THEN "legacy.process_notifications_consent"
    ELSE "none"

\* setup_routers: the registration router is asked first, then the menu
\* router, then the legacy router; the first handler found takes the update
Route(st, e) ==
    IF RegistrationRoute(st, e) # "none" THEN RegistrationRoute(st, e)
    ELSE IF MenuRoute(st, e) # "none" THEN MenuRoute(st, e)
    ELSE LegacyRoute(st, e)

\* the update e is routed to handler h, which did o with it: "accepted" (a
\* value passed the validator and was handed to update_user), "rejected"
\* (the handler re-prompted), "moved" (a navigation step), "ignored"
\* (nothing was done with the input); r: an exception left the handler
Handled(e, o, r) ==
    ev' = e /\ handler' = Route(fsm_state, e) /\ outcome' = o /\ raised' = r

\* the handler ran from its first line to its last with no other call of
\* the user in between
Done(e, o, r) ==
    /\ Handled(e, o, r)
    /\ UNCHANGED <<tasks, menu_sent, other, db_down, call, inbox>>

\* await db.update_user(...) raised: the exception leaves the handler, whose
\* remaining statements do not run
StoreDown(e) ==
    /\ Done(e, "failed", TRUE)
    /\ UNCHANGED <<fsm_state, fsm_data, db_user>>

\* the handler ended in show_main_menu (shown) or left before it
Greeted(e, o, shown) ==
    /\ Handled(e, o, ~shown)
    /\ menu_sent' = IF shown THEN menu_sent + 1 ELSE menu_sent
    /\ UNCHANGED <<tasks, other, db_down, call, inbox>>

\* ------------------------------------------- registration.py: the handlers
reg_process_rules_accept ==
    \E e \in Events :
        /\ Route(fsm_state, e) = "registration.process_rules_accept"
        /\ db_user' = update_user(db_user, [rules_accepted |-> TRUE])
        /\ fsm_state' = REG_CONTACT
        /\ Done(e, "accepted", FALSE)
        /\ UNCHANGED <<fsm_data, shared>>

\* the phone number with a '+' put in front whatever it starts with
normalize_phone_always_prefixed(phone) == <<"+">> \o phone

\* if not phone.startswith('+'): phone = '+' + phone
normalize_phone(phone) ==
    IF phone # <<>> /\ Head(phone) = "+" THEN phone ELSE <<"+">> \o phone

\* user_id = message.from_user.id: the row handled is the sender's
from_user == IF db_user = NoUser THEN SenderId ELSE db_user.id

\* process_contact storing the number on the row of the contact's user
reg_process_contact_to_owner ==
    \E e \in Events :
        /\ Route(fsm_state, e) = "registration.process_contact"
        /\ LET phone == normalize_phone(e.contact.phone_number)
           IN  IF e.contact.user_id = from_user
               THEN db_user' = update_user(db_user, [phone_number |-> phone])
                    /\ UNCHANGED other
               ELSE other' = [other EXCEPT
                                !.user = update_user(@, [phone_number |-> phone])]
                    /\ UNCHANGED db_user
        /\ fsm_state' = REG_FIRST_NAME
        /\ Handled(e, "accepted", FALSE)
        /\ UNCHANGED <<fsm_data, shared, tasks, menu_sent, db_down, call,
                       inbox>>

\* process_contact without the comparison of contact.user_id
reg_process_contact_any_owner ==
    \E e \in Events :
        /\ Route(fsm_state, e) = "registration.process_contact"
        /\ db_user' = update_user(db_user,
                        [phone_number |-> normalize_phone(e.contact.phone_number)])
        /\ fsm_state' = REG_FIRST_NAME
        /\ Done(e, "accepted", FALSE)
        /\ UNCHANGED <<fsm_data, shared>>

reg_process_contact ==
    \E e \in Events :
        /\ Route(fsm_state, e) = "registration.process_contact"
        /\ IF e.contact.user_id # from_user
           THEN /\ Done(e, "rejected", FALSE)
                /\ UNCHANGED <<fsm_state, fsm_data, db_user, shared>>
           ELSE LET phone == normalize_phone(e.contact.phone_number)
                IN  /\ db_user' = update_user(db_user, [phone_number |-> phone])
                    /\ fsm_state' = REG_FIRST_NAME
                    /\ Done(e, "accepted", FALSE)
                    /\ UNCHANGED <<fsm_data, shared>>

reg_process_contact_invalid ==
    \E e \in Events :
        /\ Route(fsm_state, e) = "registration.process_contact_invalid"
        /\ Done(e, "rejected", FALSE)
        /\ UNCHANGED <<fsm_state, fsm_data, db_user, shared>>

reg_process_first_name ==
    \E e \in Events :
        /\ Route(fsm_state, e) = "registration.process_first_name"
        /\ LET r == name_check(TextOrEmpty(e.text))
           IN  IF ~r.ok
               THEN /\ Done(e, "rejected", FALSE)
                    /\ UNCHANGED <<fsm_state, fsm_data, db_user, shared>>
               ELSE /\ db_user' = update_user(db_user, [first_name_input |-> r.value])
                    /\ fsm_state' = REG_LAST_NAME
                    /\ Done(e, "accepted", FALSE)
                    /\ UNCHANGED <<fsm_data, shared>>

\* process_last_name without its checks
reg_process_last_name_unchecked ==
    \E e \in Events :
        /\ Route(fsm_state, e) = "registration.process_last_name"
        /\ db_user' = update_user(db_user,
                        [last_name_input |-> CleanName(TextOrEmpty(e.text))])
        /\ fsm_state' = REG_GENDER
        /\ Done(e, "accepted", FALSE)
        /\ UNCHANGED <<fsm_data, shared>>

reg_process_last_name ==
    \E e \in Events :
        /\ Route(fsm_state, e) = "registration.process_last_name"
        /\ LET r == name_check(TextOrEmpty(e.text))
           IN  IF ~r.ok
               THEN /\ Done(e, "rejected", FALSE)
                    /\ UNCHANGED <<fsm_state, fsm_data, db_user, shared>>
               ELSE /\ db_user' = update_user(db_user, [last_name_input |-> r.value])
                    /\ fsm_state' = REG_GENDER
                    /\ Done(e, "accepted", FALSE)
                    /\ UNCHANGED <<fsm_data, shared>>

\* process_gender going on to the email
reg_process_gender_skipping ==
    \E e \in Events :
        /\ Route(fsm_state, e) = "registration.process_gender"
        /\ db_user' = update_user(db_user, [gender |-> gender_value(e.data)])
        /\ fsm_state' = REG_EMAIL
        /\ Done(e, "accepted", FALSE)
        /\ UNCHANGED <<fsm_data, shared>>

reg_process_gender ==
    \E e \in Events :
        /\ Route(fsm_state, e) = "registration.process_gender"
        /\ IF db_down
           THEN StoreDown(e)
           ELSE /\ db_user' = update_user(db_user,
                                [gender |-> gender_value(e.data)])
                /\ fsm_state' = REG_BIRTH_DATE
                /\ Done(e, "accepted", FALSE)
                /\ UNCHANGED fsm_data
        /\ UNCHANGED shared

\* process_birth_date setting the next state before the write
reg_process_birth_date_state_first ==
    \E e \in Events :
        /\ Route(fsm_state, e) = "registration.process_birth_date"
        /\ LET r == birth_date_check(TextOrEmpty(e.text))
           IN  IF ~r.ok
               THEN /\ Done(e, "rejected", FALSE)
                    /\ UNCHANGED <<fsm_state, fsm_data, db_user, shared>>
               ELSE /\ fsm_state' = REG_EMAIL
                    /\ db_user' = IF db_down THEN db_user
                                  ELSE update_user(db_user, [birth_date |-> r.value])
                    /\ Done(e, IF db_down THEN "failed" ELSE "accepted", db_down)
                    /\ UNCHANGED <<fsm_data, shared>>

reg_process_birth_date ==
    \E e \in Events :
        /\ Route(fsm_state, e) = "registration.process_birth_date"
        /\ LET r == birth_date_check(TextOrEmpty(e.text))
           IN  IF ~r.ok
               THEN /\ Done(e, "rejected", FALSE)
                    /\ UNCHANGED <<fsm_state, fsm_data, db_user, shared>>
               ELSE IF db_down
               THEN StoreDown(e) /\ UNCHANGED shared
               ELSE /\ db_user' = update_user(db_user, [birth_date |-> r.value])
                    /\ fsm_state' = REG_EMAIL
                    /\ Done(e, "accepted", FALSE)
                    /\ UNCHANGED <<fsm_data, shared>>

reg_process_email ==
    \E e \in Events :
        /\ Route(fsm_state, e) = "registration.process_email"
        /\ LET r == email_check(TextOrEmpty(e.text))
               u == update_user(db_user, [email |-> r.value])
           IN  IF ~r.ok
               THEN /\ Done(e, "rejected", FALSE)
                    /\ UNCHANGED <<fsm_state, fsm_data, db_user, shared>>
               ELSE IF db_down
               THEN StoreDown(e) /\ UNCHANGED shared
               ELSE /\ db_user' = u
                    /\ fsm_state' = ReviewState(u, fsm_state, REG_REVIEW)
                    /\ Done(e, "accepted", ReviewRaised(u))
                    /\ UNCHANGED <<fsm_data, shared>>

reg_process_review_correct ==
    \E e \in Events :
        /\ Route(fsm_state, e) = "registration.process_review_correct"
        /\ fsm_state' = REG_NOTIFICATIONS
        /\ Done(e, "moved", FALSE)
        /\ UNCHANGED <<fsm_data, db_user, shared>>

reg_process_review_edit ==
    \E e \in Events :
        /\ Route(fsm_state, e) = "registration.process_review_edit"
        /\ fsm_state' = REG_EDIT_CHOICE
        /\ Done(e, "moved", FALSE)
        /\ UNCHANGED <<fsm_data, db_user, shared>>

\* the state process_edit_choice selects for the callback data
RegEditState(data) ==
    CASE data = "edit_first_name" -> REG_EDIT_FIRST_NAME
      [] data = "edit_last_name" -> REG_EDIT_LAST_NAME
      [] data = "edit_gender" -> REG_EDIT_GENDER
      [] data = "edit_birth_date" -> REG_EDIT_BIRTH_DATE
      [] data = "edit_email" -> REG_EDIT_EMAIL

reg_process_edit_choice ==
    \E e \in Events :
        /\ Route(fsm_state, e) = "registration.process_edit_choice"
        /\ IF e.data \in EditData
           THEN /\ fsm_state' = RegEditState(e.data)
                /\ Done(e, "moved", FALSE)
           ELSE \* edit_cancel, or any other data: back to the review
                /\ fsm_state' = ReviewState(db_user, fsm_state, REG_REVIEW)
                /\ Done(e, IF e.data = "edit_cancel" THEN "moved" ELSE "ignored",
                        ReviewRaised(db_user))
        /\ UNCHANGED <<fsm_data, db_user, shared>>

reg_process_edit_first_name ==
    \E e \in Events :
        /\ Route(fsm_state, e) = "registration.process_edit_first_name"
        /\ LET r == name_check(TextOrEmpty(e.text))
               u == update_user(db_user, [first_name_input |-> r.value])
           IN  IF ~r.ok
               THEN /\ Done(e, "rejected", FALSE)
                    /\ UNCHANGED <<fsm_state, fsm_data, db_user, shared>>
               ELSE /\ db_user' = u
                    /\ fsm_state' = ReviewState(u, fsm_state, REG_REVIEW)
                    /\ Done(e, "accepted", ReviewRaised(u))
                    /\ UNCHANGED <<fsm_data, shared>>

reg_process_edit_last_name ==
    \E e \in Events :
        /\ Route(fsm_state, e) = "registration.process_edit_last_name"
        /\ LET r == name_check(TextOrEmpty(e.text))
               u == update_user(db_user, [last_name_input |-> r.value])
           IN  IF ~r.ok
               THEN /\ Done(e, "rejected", FALSE)
                    /\ UNCHANGED <<fsm_state, fsm_data, db_user, shared>>
               ELSE /\ db_user' = u
                    /\ fsm_state' = ReviewState(u, fsm_state, REG_REVIEW)
                    /\ Done(e, "accepted", ReviewRaised(u))
                    /\ UNCHANGED <<fsm_data, shared>>

reg_process_edit_gender ==
    \E e \in Events :
        /\ Route(fsm_state, e) = "registration.process_edit_gender"
        /\ LET u == update_user(db_user, [gender |-> gender_value(e.data)])
           IN  /\ db_user' = u
               /\ fsm_state' = ReviewState(u, fsm_state, REG_REVIEW)
               /\ Done(e, "accepted", ReviewRaised(u))
               /\ UNCHANGED <<fsm_data, shared>>

\* text = message.text.strip(): AttributeError when the message has no text
reg_process_edit_birth_date ==
    \E e \in Events :
        /\ Route(fsm_state, e) = "registration.process_edit_birth_date"
        /\ IF e.text = NoneStr
           THEN /\ Done(e, "ignored", TRUE)
                /\ UNCHANGED <<fsm_state, fsm_data, db_user, shared>>
           ELSE LET r == birth_date_check(Strip(e.text))
                    u == update_user(db_user, [birth_date |-> r.value])
                IN  IF ~r.ok
                    THEN /\ Done(e, "rejected", FALSE)
                         /\ UNCHANGED <<fsm_state, fsm_data, db_user, shared>>
                    ELSE /\ db_user' = u
                         /\ fsm_state' = ReviewState(u, fsm_state, REG_REVIEW)
                         /\ Done(e, "accepted", ReviewRaised(u))
                         /\ UNCHANGED <<fsm_data, shared>>

\* email = message.text.strip(): AttributeError when the message has no text
reg_process_edit_email ==
    \E e \in Events :
        /\ Route(fsm_state, e) = "registration.process_edit_email"
        /\ IF e.text = NoneStr
           THEN /\ Done(e, "ignored", TRUE)
                /\ UNCHANGED <<fsm_state, fsm_data, db_user, shared>>
           ELSE LET r == email_check(Strip(e.text))
                    u == update_user(db_user, [email |-> r.value])
                IN  IF ~r.ok
                    THEN /\ Done(e, "rejected", FALSE)
                         /\ UNCHANGED <<fsm_state, fsm_data, db_user, shared>>
                    ELSE /\ db_user' = u
                         /\ fsm_state' = ReviewState(u, fsm_state, REG_REVIEW)
                         /\ Done(e, "accepted", ReviewRaised(u))
                         /\ UNCHANGED <<fsm_data, shared>>

\* name = user.first_name_input or "Гость", after get_user
GreetingReadable(u) == CanRead(u, {"first_name_input"})

\* show_main_menu: state.clear(), then the menu is sent
reg_process_notifications_consent ==
    \E e \in Events :
        /\ Route(fsm_state, e) = "registration.process_notifications_consent"
        /\ LET u == update_user(db_user,
                        [notifications_allowed |-> (e.data = "notify_yes"),
                         is_registered |-> TRUE])
           IN  /\ db_user' = u
               /\ IF GreetingReadable(u)
                  THEN fsm_state' = NoState /\ fsm_data' = EmptyData
                  ELSE UNCHANGED <<fsm_state, fsm_data>>
               /\ Greeted(e, "accepted", GreetingReadable(u))
               /\ UNCHANGED <<shared>>

\* --------------------------------------------------- menu.py: the handlers
\* process_balance reads nothing of the user; process_back_to_main reads
\* user.first_name_input; neither touches the FSM or the store
menu_callback ==
    \E e \in Events :
        /\ Route(fsm_state, e) \in {"menu.process_balance", "menu.process_back_to_main"}
        /\ Done(e, "moved",
                e.data = "back_to_main" /\ ~GreetingReadable(db_user))
        /\ UNCHANGED <<fsm_state, fsm_data, db_user, shared>>

\* no handler of the three routers takes the update
unhandled ==
    \E e \in Events :
        /\ Route(fsm_state, e) = "none"
        /\ Done(e, "ignored", FALSE)
        /\ UNCHANGED <<fsm_state, fsm_data, db_user, shared>>

\* ------------------------------------------------- legacy.py: the helpers
\* get_missing_fields raised AttributeError
AttributeError == <<"AttributeError">>

\* age < 18 or age > 100 for a stored birth date
AgeOutOfRange(birth) == Age(Today, birth) < 18 \/ Age(Today, birth) > 100

\* get_missing_fields(user): the attributes are read in this order, and the
\* first one the user does not have raises
get_missing_fields(u) ==
    IF ~CanRead(u, {"first_name_input"}) THEN AttributeError
    ELSE IF ~CanRead(u, {"last_name_input"}) THEN AttributeError
    ELSE IF ~CanRead(u, {"gender", "birth_date", "email"}) THEN AttributeError
    ELSE
        (IF Falsy(u.first_name_input) \/ ~NameMatch(u.first_name_input)
         THEN <<"first_name">> ELSE <<>>)
        \o (IF Falsy(u.last_name_input) \/ ~NameMatch(u.last_name_input)
            THEN <<"last_name">> ELSE <<>>)
        \o (IF u.gender \notin {"male", "female"} THEN <<"gender">> ELSE <<>>)
        \o (IF u.birth_date = NoneDate \/ AgeOutOfRange(u.birth_date)
            THEN <<"birth_date">> ELSE <<>>)
        \o (IF Falsy(u.email) \/ ~EmailMatch(u.email)
            THEN <<"email">> ELSE <<>>)

\* ask_next_field(user_id, missing_fields, obj, state) called in state st with
\* session data `data`: the state, the data and whether it raised.  With an
\* empty list the review is shown and update_data is not called: the stored
\* list is then the popped list only when the storage shares it (sh).
RECURSIVE ask_next_field(_, _, _, _, _)
ask_next_field(missing, st, data, u, sh) ==
    IF missing = <<>>
    THEN [state |-> ReviewState(u, st, LEG_REVIEW),
          data |-> IF sh THEN [data EXCEPT !.missing_fields = <<>>] ELSE data,
          raised |-> ReviewRaised(u)]
    ELSE LET stored == [data EXCEPT !.missing_fields = missing]
         IN  IF Head(missing) \in Fields
             THEN [state |-> LEG_FIELD, data |-> stored, raised |-> FALSE]
             ELSE ask_next_field(Tail(missing), st, stored, u, sh)

\* the attributes start_legacy_upgrade reads from the user for its log line
LegacyLogAttrs == {"id", "is_legacy"}

\* ------------------------------------------------ legacy.py: the handlers
\* /start of a user the start handler takes for a legacy user
StartCommand == TextMessage(<<"/", "s", "t", "a", "r", "t">>)

\* start_legacy_upgrade(obj, state, user) with obj the /start message: the
\* log line reads user.is_legacy, and the rules are sent with obj.message,
\* which a Message does not have
start_legacy_upgrade ==
    /\ fsm_state = NoState
    /\ LET e == StartCommand
           readable == CanRead(db_user, LegacyLogAttrs)
       IN  /\ ev' = e /\ handler' = "legacy.start_legacy_upgrade"
           /\ outcome' = "moved"
           /\ raised' = (~readable \/ IsMessage(e))
           /\ fsm_state' = IF readable /\ ~IsMessage(e) THEN LEG_RULES
                           ELSE fsm_state
    /\ UNCHANGED <<fsm_data, db_user, shared, tasks, menu_sent, other,
                   db_down, call, inbox>>

legacy_process_rules_accept ==
    \E e \in Events :
        /\ Route(fsm_state, e) = "legacy.process_rules_accept"
        /\ LET u == update_user(db_user,
                        [rules_accepted |-> TRUE, rules_accepted_at |-> "now"])
               missing == get_missing_fields(u)
               r == ask_next_field(missing, fsm_state, fsm_data, u, shared)
           IN  /\ db_user' = u
               /\ IF missing = AttributeError
                  THEN /\ Done(e, "accepted", TRUE)
                       /\ UNCHANGED <<fsm_state, fsm_data>>
                  ELSE IF missing # <<>>
                  THEN /\ fsm_state' = r.state
                       /\ fsm_data' = r.data
                       /\ Done(e, "accepted", r.raised)
                  ELSE /\ fsm_state' = ReviewState(u, fsm_state, LEG_REVIEW)
                       /\ Done(e, "accepted", ReviewRaised(u))
                       /\ UNCHANGED fsm_data
        /\ UNCHANGED <<shared>>

\* the live check of process_field_input / process_edit_field for a text
\* field, on value = message.text.strip()
legacy_check(field, value) ==
    CASE field \in {"first_name", "last_name"} -> name_check(value)
      [] field = "birth_date" -> birth_date_check(value)
      [] field = "email" -> email_check(value)

\* the keyword update_user is called with for a field
FieldKey(field) ==
    CASE field = "first_name" -> "first_name_input"
      [] field = "last_name" -> "last_name_input"
      [] field = "gender" -> "gender"
      [] field = "birth_date" -> "birth_date"
      [] field = "email" -> "email"

TextFields == {"first_name", "last_name", "birth_date", "email"}

legacy_process_field_input ==
    \E e \in Events :
        /\ Route(fsm_state, e) = "legacy.process_field_input"
        /\ LET missing == GetMissing(fsm_data)
               field == Head(missing)
               chk == legacy_check(field, Strip(e.text))
               u == update_user(db_user, [k \in {FieldKey(field)} |-> chk.value])
               r == ask_next_field(Tail(missing), fsm_state, fsm_data, u, shared)
               skip == ask_next_field(Tail(missing), fsm_state, fsm_data,
                                      db_user, shared)
           IN  IF missing = <<>>
               THEN /\ fsm_state' = ReviewState(db_user, fsm_state, LEG_REVIEW)
                    /\ Done(e, "ignored", ReviewRaised(db_user))
                    /\ UNCHANGED <<fsm_data, db_user>>
               ELSE IF e.text = NoneStr
               THEN \* message.text.strip() on None
                    /\ Done(e, "ignored", TRUE)
                    /\ UNCHANGED <<fsm_state, fsm_data, db_user>>
               ELSE IF field \notin TextFields
               THEN \* the else branch: the head is dropped
                    /\ fsm_state' = skip.state
                    /\ fsm_data' = skip.data
                    /\ Done(e, "ignored", skip.raised)
                    /\ UNCHANGED <<db_user>>
               ELSE IF ~chk.ok
               THEN /\ Done(e, "rejected", FALSE)
                    /\ UNCHANGED <<fsm_state, fsm_data, db_user>>
               ELSE IF db_down
               THEN StoreDown(e)
               ELSE /\ db_user' = u
                    /\ fsm_state' = r.state
                    /\ fsm_data' = r.data
                    /\ Done(e, "accepted", r.raised)
        /\ UNCHANGED shared

legacy_process_gender_input ==
    \E e \in Events :
        /\ Route(fsm_state, e) = "legacy.process_gender_input"
        /\ LET missing == GetMissing(fsm_data)
               u == update_user(db_user, [gender |-> gender_value(e.data)])
               r == ask_next_field(Tail(missing), fsm_state, fsm_data, u, shared)
           IN  IF missing = <<>> \/ Head(missing) # "gender"
               THEN /\ fsm_state' = ReviewState(db_user, fsm_state, LEG_REVIEW)
                    /\ Done(e, "ignored", ReviewRaised(db_user))
                    /\ UNCHANGED <<fsm_data, db_user>>
               ELSE IF db_down
               THEN StoreDown(e)
               ELSE /\ db_user' = u
                    /\ fsm_state' = r.state
                    /\ fsm_data' = r.data
                    /\ Done(e, "accepted", r.raised)
        /\ UNCHANGED shared

legacy_process_review_correct ==
    \E e \in Events :
        /\ Route(fsm_state, e) = "legacy.process_review_correct"
        /\ fsm_state' = LEG_NOTIFICATIONS
        /\ Done(e, "moved", FALSE)
        /\ UNCHANGED <<fsm_data, db_user, shared>>

\* process_review_edit going on to the notification consent
legacy_process_review_edit_confirming ==
    \E e \in Events :
        /\ Route(fsm_state, e) = "legacy.process_review_edit"
        /\ fsm_state' = LEG_NOTIFICATIONS
        /\ Done(e, "moved", FALSE)
        /\ UNCHANGED <<fsm_data, db_user, shared>>

legacy_process_review_edit ==
    \E e \in Events :
        /\ Route(fsm_state, e) = "legacy.process_review_edit"
        /\ fsm_state' = LEG_EDIT_CHOICE
        /\ Done(e, "moved", FALSE)
        /\ UNCHANGED <<fsm_data, db_user, shared>>

legacy_process_edit_choice ==
    \E e \in Events :
        /\ Route(fsm_state, e) = "legacy.process_edit_choice"
        /\ IF e.data = "edit_cancel"
           THEN /\ fsm_state' = ReviewState(db_user, fsm_state, LEG_REVIEW)
                /\ Done(e, "moved", ReviewRaised(db_user))
                /\ UNCHANGED fsm_data
           ELSE /\ fsm_data' = [fsm_data EXCEPT !.edit_field = e.data]
                /\ IF e.data \in EditData
                   THEN /\ fsm_state' = LEG_EDIT_FIELD
                        /\ Done(e, "moved", FALSE)
                   ELSE /\ fsm_state' = ReviewState(db_user, fsm_state, LEG_REVIEW)
                        /\ Done(e, "ignored", ReviewRaised(db_user))
        /\ UNCHANGED <<db_user, shared>>

\* the field an edit_field value of process_edit_field's branches stands for
EditTarget(edit_field) ==
    CASE edit_field = "edit_first_name" -> "first_name"
      [] edit_field = "edit_last_name" -> "last_name"
      [] edit_field = "edit_birth_date" -> "birth_date"
      [] edit_field = "edit_email" -> "email"

EditTextData ==
    {"edit_first_name", "edit_last_name", "edit_birth_date", "edit_email"}

legacy_process_edit_field ==
    \E e \in Events :
        /\ Route(fsm_state, e) = "legacy.process_edit_field"
        /\ LET field == EditTarget(fsm_data.edit_field)
               chk == legacy_check(field, Strip(e.text))
               u == update_user(db_user, [k \in {FieldKey(field)} |-> chk.value])
           IN  IF e.text = NoneStr
               THEN \* message.text.strip() on None
                    /\ Done(e, "ignored", TRUE)
                    /\ UNCHANGED <<fsm_state, db_user>>
               ELSE IF fsm_data.edit_field \notin EditTextData
               THEN \* the else branch: the review is shown
                    /\ fsm_state' = ReviewState(db_user, fsm_state, LEG_REVIEW)
                    /\ Done(e, "ignored", ReviewRaised(db_user))
                    /\ UNCHANGED <<db_user>>
               ELSE IF ~chk.ok
               THEN /\ Done(e, "rejected", FALSE)
                    /\ UNCHANGED <<fsm_state, db_user>>
               ELSE /\ db_user' = u
                    /\ fsm_state' = ReviewState(u, fsm_state, LEG_REVIEW)
                    /\ Done(e, "accepted", ReviewRaised(u))
        /\ UNCHANGED <<fsm_data, shared>>

legacy_process_edit_gender ==
    \E e \in Events :
        /\ Route(fsm_state, e) = "legacy.process_edit_gender"
        /\ LET u == update_user(db_user, [gender |-> gender_value(e.data)])
           IN  /\ db_user' = u
               /\ fsm_state' = ReviewState(u, fsm_state, LEG_REVIEW)
               /\ Done(e, "accepted", ReviewRaised(u))
        /\ UNCHANGED <<fsm_data, shared>>

legacy_process_notifications_consent ==
    \E e \in Events :
        /\ Route(fsm_state, e) = "legacy.process_notifications_consent"
        /\ LET u == update_user(db_user,
                        [notifications_allowed |-> (e.data = "notify_yes"),
                         notifications_allowed_at |-> "now",
                         is_legacy |-> FALSE])
           IN  /\ db_user' = u
               /\ IF GreetingReadable(u)
                  THEN fsm_state' = NoState /\ fsm_data' = EmptyData
                  ELSE UNCHANGED <<fsm_state, fsm_data>>
               /\ Greeted(e, "accepted", GreetingReadable(u))
        /\ UNCHANGED <<shared>>

\* ---------------------------------------------------------- specifications
NoEvent ==
    [kind |-> "none", data |-> "None", text |-> NoneStr, contact |-> NoContact]

\* rows carried over from the old bot: a phone number and some of the
\* profile columns, valid or not
LegacyUser(g, b, m) ==
    [NewUser EXCEPT !.phone_number = <<"+", "7", "1">>, !.gender = g,
                    !.birth_date = b, !.email = m]
LegacyUsers ==
    {LegacyUser(g, b, m) :
        g \in {NoGender, "male"},
        b \in {NoneDate, <<1990, 12, 25>>, <<1876, 1, 1>>},
        m \in {NoneStr, <<"a", "@", "b", ".", "a">>}}

\* nothing was called outside a handler
NoCall == [fn |-> "none", arg |-> <<>>, result |-> <<>>]

\* no second user
NoOther == [state |-> NoState, data |-> EmptyData, user |-> NoUser]

\* the updates of one user the dispatcher has in flight at a time
MaxTasks == 2
Tasks == 1..MaxTasks

\* a task slot with no call in it
IdleTask ==
    [pc |-> "idle", e |-> NoEvent, field |-> "none", missing |-> NoKeySeq]

NoHistory ==
    /\ ev = NoEvent /\ handler = "none" /\ outcome = "none" /\ raised = FALSE
    /\ tasks = [t \in Tasks |-> IdleTask]
    /\ menu_sent = 0
    /\ other = NoOther
    /\ db_down = FALSE
    /\ call = NoCall
    /\ inbox = "samples"

\* /start of a new user: the row exists and the rules are shown;
\* /start of a carried-over user: start_legacy_upgrade is about to run
Init ==
    /\ \/ fsm_state = REG_RULES /\ db_user = NewUser
       \/ fsm_state = NoState /\ db_user \in LegacyUsers
    /\ fsm_data = EmptyData
    /\ shared \in BOOLEAN
    /\ NoHistory

\* the handlers a flow entered through /start can come to
Next ==
    \/ reg_process_rules_accept
    \/ reg_process_contact
    \/ reg_process_contact_invalid
    \/ reg_process_first_name
    \/ reg_process_last_name
    \/ reg_process_gender
    \/ reg_process_birth_date
    \/ reg_process_email
    \/ start_legacy_upgrade
    \/ menu_callback
    \/ unhandled

Spec == Init /\ [][Next]_vars

\* every handler of the three routers
NextStored ==
    \/ Next
    \/ reg_process_review_correct
    \/ reg_process_review_edit
    \/ reg_process_edit_choice
    \/ reg_process_edit_first_name
    \/ reg_process_edit_last_name
    \/ reg_process_edit_gender
    \/ reg_process_edit_birth_date
    \/ reg_process_edit_email
    \/ reg_process_notifications_consent
    \/ legacy_process_rules_accept
    \/ legacy_process_field_input
    \/ legacy_process_gender_input
    \/ legacy_process_review_correct
    \/ legacy_process_review_edit
    \/ legacy_process_edit_choice
    \/ legacy_process_edit_field
    \/ legacy_process_edit_gender
    \/ legacy_process_notifications_consent

\* the lists under missing_fields: the tails of FieldOrder, and lists that
\* start with gender, with a text field, or hold a single field
RECURSIVE Tails(_)
Tails(q) == IF q = <<>> THEN {<<>>} ELSE {q} \cup Tails(Tail(q))
Queues ==
    Tails(FieldOrder) \cup Tails(<<"gender", "email">>)
    \cup Tails(<<"first_name", "gender">>)

\* the session data the storage can hold in state st
StoredData(st) ==
    IF st = LEG_FIELD
    THEN {[missing_fields |-> q, edit_field |-> NoKey] :
            q \in Queues \cup {NoKeySeq}}
    ELSE IF st = LEG_EDIT_FIELD
    THEN {[missing_fields |-> <<>>, edit_field |-> f] :
            f \in EditData \cup {"unknown", NoKey}}
    ELSE IF st \in LegacyStates \ {LEG_RULES}
    THEN {[missing_fields |-> <<>>, edit_field |-> NoKey]}
    ELSE {EmptyData}

StoredUsers ==
    {NewUser, LegacyUser("male", <<1990, 12, 25>>, <<"a", "@", "b", ".", "a">>),
     LegacyUser(NoGender, <<1876, 1, 1>>, NoneStr)}

\* The handlers are entered through the dispatcher with whatever session the
\* FSM storage holds for the user and whatever row the users table holds:
\* InitStored draws both from bounded sets, so that every handler is
\* exercised on every session it is registered for.
InitStored ==
    /\ fsm_state \in RegistrationStates \cup LegacyStates \cup {NoState}
    /\ fsm_data \in StoredData(fsm_state)
    /\ db_user \in StoredUsers
    /\ shared \in BOOLEAN
    /\ NoHistory

SpecStored == InitStored /\ [][NextStored]_vars

\* ------------------------------------- two updates of one user in flight
\* process_field_input up to its await db.update_user(...): get_data, the
\* head of the list, the check of the value, and the update handed to the
\* store.  Every other branch has no await before its return and runs as in
\* legacy_process_field_input.  The task keeps what the coroutine holds in
\* its locals: the field it checked and its list, which is the stored list
\* itself when the storage shares it and a copy otherwise.
field_input_begin(t) ==
    /\ tasks[t].pc = "idle"
    /\ \E e \in Events :
        /\ Route(fsm_state, e) = "legacy.process_field_input"
        /\ LET missing == GetMissing(fsm_data)
               field == Head(missing)
               chk == legacy_check(field, Strip(e.text))
               u == update_user(db_user, [k \in {FieldKey(field)} |-> chk.value])
               skip == ask_next_field(Tail(missing), fsm_state, fsm_data,
                                      db_user, shared)
           IN  IF missing = <<>>
               THEN /\ fsm_state' = ReviewState(db_user, fsm_state, LEG_REVIEW)
                    /\ Handled(e, "ignored", ReviewRaised(db_user))
                    /\ UNCHANGED <<fsm_data, db_user, tasks>>
               ELSE IF e.text = NoneStr
               THEN /\ Handled(e, "ignored", TRUE)
                    /\ UNCHANGED <<fsm_state, fsm_data, db_user, tasks>>
               ELSE IF field \notin TextFields
               THEN /\ fsm_state' = skip.state
                    /\ fsm_data' = skip.data
                    /\ Handled(e, "ignored", skip.raised)
                    /\ UNCHANGED <<db_user, tasks>>
               ELSE IF ~chk.ok
               THEN /\ Handled(e, "rejected", FALSE)
                    /\ UNCHANGED <<fsm_state, fsm_data, db_user, tasks>>
               ELSE /\ db_user' = u
                    /\ tasks' = [tasks EXCEPT ![t] =
                                    [pc |-> "update_user", e |-> e,
                                     field |-> field,
                                     missing |-> IF shared THEN NoKeySeq
                                                 ELSE missing]]
                    /\ Handled(e, "accepted", FALSE)
                    /\ UNCHANGED <<fsm_state, fsm_data>>
    /\ UNCHANGED <<shared, menu_sent, other, db_down, call, inbox>>

\* process_field_input after its await db.update_user(...):
\* missing_fields.pop(0) on the task's list, then ask_next_field.  pop(0) on
\* a list another task has emptied raises IndexError.
field_input_finish(t) ==
    /\ tasks[t].pc = "update_user"
    /\ LET missing == IF shared THEN GetMissing(fsm_data) ELSE tasks[t].missing
           r == ask_next_field(Tail(missing), fsm_state, fsm_data, db_user,
                               shared)
       IN  IF missing = <<>>
           THEN /\ raised' = TRUE
                /\ UNCHANGED <<fsm_state, fsm_data>>
           ELSE /\ fsm_state' = r.state
                /\ fsm_data' = r.data
                /\ raised' = r.raised
    /\ ev' = tasks[t].e
    /\ handler' = "legacy.process_field_input"
    /\ outcome' = "accepted"
    /\ tasks' = [tasks EXCEPT ![t] = IdleTask]
    /\ UNCHANGED <<db_user, shared, menu_sent, other, db_down, call,
                   inbox>>

\* the user is in waiting_for_field with some list stored, and nothing is in
\* flight
InitConcurrent ==
    /\ fsm_state = LEG_FIELD
    /\ fsm_data \in StoredData(LEG_FIELD)
    /\ db_user \in StoredUsers
    /\ shared \in BOOLEAN
    /\ NoHistory

\* the dispatcher starts a task per update; a suspended task resumes at any
\* time
NextConcurrent ==
    \/ \E t \in Tasks : field_input_begin(t)
    \/ \E t \in Tasks : field_input_finish(t)

SpecConcurrent == InitConcurrent /\ [][NextConcurrent]_vars

\* ------------------------------------------------------------- two users
\* the dispatcher takes an update of the other user: the FSM context and the
\* row the handlers see are now that user's (key = from_user.id)
switch_user ==
    /\ other # NoOther
    /\ fsm_state' = other.state
    /\ fsm_data' = other.data
    /\ db_user' = other.user
    /\ other' = [state |-> fsm_state, data |-> fsm_data, user |-> db_user]
    /\ UNCHANGED <<shared, ev, handler, outcome, raised, tasks, menu_sent,
                   db_down, call, inbox>>

\* a second user with a row of their own
SecondUser(u) == [u EXCEPT !.id = OtherId]

\* both users have sent /start: a new user waits for the rules consent, a
\* carried-over user is about to be handed to start_legacy_upgrade
InitTwoUsers ==
    /\ fsm_state = REG_RULES
    /\ fsm_data = EmptyData
    /\ db_user = NewUser
    /\ other \in {[state |-> REG_RULES, data |-> EmptyData,
                   user |-> SecondUser(NewUser)],
                  [state |-> NoState, data |-> EmptyData,
                   user |-> SecondUser(LegacyUser("male", <<1990, 12, 25>>,
                                                  NoneStr))]}
    /\ shared \in BOOLEAN
    /\ ev = NoEvent /\ handler = "none" /\ outcome = "none" /\ raised = FALSE
    /\ tasks = [t \in Tasks |-> IdleTask]
    /\ menu_sent = 0
    /\ db_down = FALSE
    /\ call = NoCall
    /\ inbox = "samples"

NextTwoUsers == Next \/ switch_user

SpecTwoUsers == InitTwoUsers /\ [][NextTwoUsers]_vars

\* ------------------------------------------------- the store out of reach
\* the connection to the database is lost or comes back
store_outage ==
    /\ db_down' = ~db_down
    /\ UNCHANGED <<fsm_state, fsm_data, db_user, shared, ev, handler, outcome,
                   raised, tasks, menu_sent, other, call, inbox>>

\* a user in one of the states whose handlers store a field at once
InitStoreDown ==
    /\ fsm_state \in {REG_GENDER, REG_BIRTH_DATE, REG_EMAIL, LEG_FIELD}
    /\ fsm_data \in StoredData(fsm_state)
    /\ db_user \in StoredUsers
    /\ shared \in BOOLEAN
    /\ NoHistory

NextStoreDown ==
    \/ reg_process_gender
    \/ reg_process_birth_date
    \/ reg_process_email
    \/ legacy_process_field_input
    \/ legacy_process_gender_input
    \/ unhandled
    \/ store_outage

SpecStoreDown == InitStoreDown /\ [][NextStoreDown]_vars

\* ------------------------------------------------- update_user on its own
\* the keywords the handlers call update_user with, and a value for each
PatchKeys ==
    {"gender", "email", "is_registered", "first_name_input", "is_legacy"}
FullPatches ==
    [gender : {"male", "female"}, email : {<<"a", "@", "b", ".", "a">>},
     is_registered : {TRUE}, first_name_input : {<<"a">>},
     is_legacy : {FALSE}]
Patches == {[k \in S |-> full[k]] : full \in FullPatches, S \in SUBSET PatchKeys}

\* await db.update_user(user_id, **kw) with the keywords kw
update_user_call ==
    \E kw \in Patches :
        /\ db_user' = update_user(db_user, kw)
        /\ call' = [fn |-> "update_user", arg |-> kw, result |-> db_user']
        /\ UNCHANGED <<fsm_state, fsm_data, shared, ev, handler, outcome,
                       raised, tasks, menu_sent, other, db_down, inbox>>

InitUpdateUser ==
    /\ fsm_state = NoState
    /\ fsm_data = EmptyData
    /\ db_user \in StoredUsers \cup {NoUser}
    /\ shared = FALSE
    /\ NoHistory

SpecUpdateUser == InitUpdateUser /\ [][update_user_call]_vars

\* ------------------------------------------------ a birth date is awaited
\* the sessions in which the next text is taken for the birth date
BirthDateSessions ==
    {[state |-> REG_BIRTH_DATE, data |-> EmptyData, user |-> NewUser,
      shared |-> FALSE],
     [state |-> REG_EDIT_BIRTH_DATE, data |-> EmptyData, user |-> NewUser,
      shared |-> FALSE]}
    \cup {[state |-> LEG_FIELD,
           data |-> [missing_fields |-> <<"birth_date", "email">>,
                     edit_field |-> NoKey],
           user |-> LegacyUser("male", <<1876, 1, 1>>, NoneStr),
           shared |-> sh] : sh \in BOOLEAN}
    \cup {[state |-> LEG_EDIT_FIELD,
           data |-> [missing_fields |-> <<>>, edit_field |-> "edit_birth_date"],
           user |-> LegacyUser("male", <<1876, 1, 1>>, NoneStr),
           shared |-> FALSE]}

InitBirthDate ==
    /\ \E s \in BirthDateSessions :
          /\ fsm_state = s.state /\ fsm_data = s.data /\ db_user = s.user
          /\ shared = s.shared
    /\ ev = NoEvent /\ handler = "none" /\ outcome = "none" /\ raised = FALSE
    /\ tasks = [t \in Tasks |-> IdleTask]
    /\ menu_sent = 0
    /\ other = NoOther
    /\ db_down = FALSE
    /\ call = NoCall
    /\ inbox = "dates"

\* the handlers a text reaches from these sessions
NextBirthDate ==
    \/ reg_process_birth_date
    \/ reg_process_email
    \/ reg_process_edit_birth_date
    \/ legacy_process_field_input
    \/ legacy_process_edit_field

SpecBirthDate == InitBirthDate /\ [][NextBirthDate]_vars

\* ------------------------------------------- a name or an email is awaited
\* the sessions in which the next text is taken for a name or for the email
TextSessions ==
    {[state |-> st, data |-> EmptyData, user |-> NewUser, inbox |-> "names"] :
        st \in {REG_FIRST_NAME, REG_LAST_NAME, REG_EDIT_FIRST_NAME,
                REG_EDIT_LAST_NAME}}
    \cup {[state |-> st, data |-> EmptyData, user |-> NewUser,
           inbox |-> "emails"] : st \in {REG_EMAIL, REG_EDIT_EMAIL}}
    \cup {[state |-> LEG_FIELD,
           data |-> [missing_fields |-> <<"first_name", "last_name">>,
                     edit_field |-> NoKey],
           user |-> LegacyUser("male", <<1990, 12, 25>>, NoneStr),
           inbox |-> "names"],
          [state |-> LEG_FIELD,
           data |-> [missing_fields |-> <<"email">>, edit_field |-> NoKey],
           user |-> LegacyUser("male", <<1990, 12, 25>>, NoneStr),
           inbox |-> "emails"]}
    \cup {[state |-> LEG_EDIT_FIELD,
           data |-> [missing_fields |-> <<>>, edit_field |-> f],
           user |-> LegacyUser("male", <<1990, 12, 25>>, NoneStr),
           inbox |-> IF f = "edit_email" THEN "emails" ELSE "names"] :
        f \in {"edit_first_name", "edit_last_name", "edit_email"}}

InitTextInput ==
    /\ \E s \in TextSessions :
          /\ fsm_state = s.state /\ fsm_data = s.data /\ db_user = s.user
          /\ inbox = s.inbox
    /\ shared = FALSE
    /\ ev = NoEvent /\ handler = "none" /\ outcome = "none" /\ raised = FALSE
    /\ tasks = [t \in Tasks |-> IdleTask]
    /\ menu_sent = 0
    /\ other = NoOther
    /\ db_down = FALSE
    /\ call = NoCall

\* the handlers a text reaches from these sessions
NextTextInput ==
    \/ reg_process_first_name
    \/ reg_process_last_name
    \/ reg_process_email
    \/ reg_process_edit_first_name
    \/ reg_process_edit_last_name
    \/ reg_process_edit_email
    \/ legacy_process_field_input
    \/ legacy_process_edit_field

SpecTextInput == InitTextInput /\ [][NextTextInput]_vars

\* ------------------------------------------------- the review of a profile
\* the row after the handlers of the fresh flow up to the email have run:
\* rules accepted, and every value the row has a column for
RegisteringUser ==
    [LegacyUser("female", <<2000, 2, 29>>, <<"a", "@", "b", ".", "a">>)
        EXCEPT !.rules_accepted = TRUE]

InitReview ==
    /\ fsm_state = REG_REVIEW
    /\ fsm_data = EmptyData
    /\ db_user = RegisteringUser
    /\ shared = FALSE
    /\ NoHistory

\* the handlers an update reaches from the review of the fresh flow
NextReview ==
    \/ reg_process_review_correct
    \/ reg_process_review_edit
    \/ reg_process_edit_choice
    \/ reg_process_edit_first_name
    \/ reg_process_edit_last_name
    \/ reg_process_edit_gender
    \/ reg_process_edit_birth_date
    \/ reg_process_edit_email
    \/ reg_process_notifications_consent
    \/ menu_callback
    \/ unhandled

SpecReview == InitReview /\ [][NextReview]_vars

\* ---------------------------------------------------- a contact is awaited
InitContact ==
    /\ fsm_state = REG_CONTACT
    /\ fsm_data = EmptyData
    /\ db_user = [NewUser EXCEPT !.rules_accepted = TRUE]
    /\ shared = FALSE
    /\ ev = NoEvent /\ handler = "none" /\ outcome = "none" /\ raised = FALSE
    /\ tasks = [t \in Tasks |-> IdleTask]
    /\ menu_sent = 0
    /\ other = NoOther
    /\ db_down = FALSE
    /\ call = NoCall
    /\ inbox = "phones"

\* the handlers a contact reaches from there
NextContact ==
    \/ reg_process_contact
    \/ reg_process_first_name

SpecContact == InitContact /\ [][NextContact]_vars

\* ------------------------------------- a queue with an unknown identifier
\* pending queues that hold an identifier outside the catalog
UnknownQueues ==
    {<<"unknown">>, <<"unknown", "email">>, <<"unknown", "unknown", "email">>,
     <<"unknown", "gender">>, <<"birth_date", "unknown", "email">>}

InitUnknownField ==
    /\ fsm_state = LEG_FIELD
    /\ \E q \in UnknownQueues :
          fsm_data = [missing_fields |-> q, edit_field |-> NoKey]
    /\ db_user = LegacyUser("male", <<1876, 1, 1>>, NoneStr)
    /\ shared \in BOOLEAN
    /\ NoHistory

\* the handlers an update reaches in waiting_for_field
NextUnknownField ==
    \/ legacy_process_field_input
    \/ legacy_process_gender_input
    \/ menu_callback
    \/ unhandled

SpecUnknownField == InitUnknownField /\ [][NextUnknownField]_vars

\* -------------------------------------------------- the user keeps writing
InitLive ==
    /\ \/ fsm_state = REG_RULES /\ db_user = NewUser
       \/ fsm_state = NoState /\ db_user \in LegacyUsers
    /\ fsm_data = EmptyData
    /\ shared \in BOOLEAN
    /\ ev = NoEvent /\ handler = "none" /\ outcome = "none" /\ raised = FALSE
    /\ tasks = [t \in Tasks |-> IdleTask]
    /\ menu_sent = 0
    /\ other = NoOther
    /\ db_down = FALSE
    /\ call = NoCall
    /\ inbox = "valid"

\* a step that moves the flow to another state
Progress == Next /\ fsm_state' # fsm_state

\* updates keep arriving, and an update that moves the flow on is sent
\* sooner or later whenever there is one
SpecLive == InitLive /\ [][Next]_vars /\ WF_vars(Next) /\ SF_vars(Progress)

\* ================================================================ properties
\* key holds value v in the row u
Stored(u, key, v) == u # NoUser /\ key \in DOMAIN u /\ u[key] = v

\* the field handler h takes its input for, called with session data `data`
FieldOf(h, data) ==
    CASE h \in {"registration.process_first_name",
                "registration.process_edit_first_name"} -> "first_name"
      [] h \in {"registration.process_last_name",
                "registration.process_edit_last_name"} -> "last_name"
      [] h \in {"registration.process_gender",
                "registration.process_edit_gender",
                "legacy.process_gender_input",
                "legacy.process_edit_gender"} -> "gender"
      [] h \in {"registration.process_birth_date",
                "registration.process_edit_birth_date"} -> "birth_date"
      [] h \in {"registration.process_email",
                "registration.process_edit_email"} -> "email"
      [] h = "legacy.process_field_input" /\ GetMissing(data) # <<>>
            -> Head(GetMissing(data))
      [] h = "legacy.process_edit_field" /\ data.edit_field \in EditTextData
            -> EditTarget(data.edit_field)
      [] OTHER -> "none"

\* the normalized value of field f in the update e
NormalizedInput(f, e) ==
    CASE f \in {"first_name", "last_name"} -> CleanName(TextOrEmpty(e.text))
      [] f = "gender" -> gender_value(e.data)
      [] f = "birth_date" -> ParseDate(TextOrEmpty(e.text))
      [] f = "email" -> TextOrEmpty(e.text)

\* the update e is an input the awaited field f accepts
ValidInput(f, e) ==
    IF f = "gender" THEN IsCallback(e) /\ e.data \in GenderData
    ELSE IsMessage(e) /\ legacy_check(f, TextOrEmpty(e.text)).ok

\* C1: in the fresh flow each event of the sequence accept-rules, own
\* contact, valid first name, valid last name, gender choice, valid birth
\* date, valid email, review confirm, notification choice "yes" moves the
\* flow to the next awaiting state, and the last one ends it with
\* is_registered and notifications_allowed set, no state and no session data.
C1_FreshFlowReachesTerminal ==
    [][/\ handler' = "registration.process_rules_accept"
            => fsm_state' = REG_CONTACT
       /\ handler' = "registration.process_contact"
          /\ ev'.contact.user_id = SenderId
            => fsm_state' = REG_FIRST_NAME
       /\ handler' = "registration.process_first_name"
          /\ ValidInput("first_name", ev')
            => fsm_state' = REG_LAST_NAME
       /\ handler' = "registration.process_last_name"
          /\ ValidInput("last_name", ev')
            => fsm_state' = REG_GENDER
       /\ handler' = "registration.process_gender"
            => fsm_state' = REG_BIRTH_DATE
       /\ handler' = "registration.process_birth_date"
          /\ ValidInput("birth_date", ev')
            => fsm_state' = REG_EMAIL
       /\ handler' = "registration.process_email"
          /\ ValidInput("email", ev')
            => fsm_state' = REG_REVIEW
       /\ handler' = "registration.process_review_correct"
            => fsm_state' = REG_NOTIFICATIONS
       /\ handler' = "registration.process_notifications_consent"
          /\ ev'.data = "notify_yes"
            => /\ fsm_state' = NoState
               /\ fsm_data' = EmptyData
               /\ db_user'.is_registered
               /\ db_user'.notifications_allowed
      ]_vars

\* C2: whenever a handler of either flow accepted an input for field f, the
\* user's row holds the normalized value under the key of f.
C2_AcceptedValueIsStored ==
    [][LET f == FieldOf(handler', fsm_data)
       IN  outcome' = "accepted" /\ f \in Fields
             => Stored(db_user', FieldKey(f), NormalizedInput(f, ev'))
      ]_vars

\* the text field awaited in state st with session data `data`
Awaited(st, data) ==
    CASE st \in {REG_FIRST_NAME, REG_EDIT_FIRST_NAME} -> "first_name"
      [] st \in {REG_LAST_NAME, REG_EDIT_LAST_NAME} -> "last_name"
      [] st \in {REG_BIRTH_DATE, REG_EDIT_BIRTH_DATE} -> "birth_date"
      [] st \in {REG_EMAIL, REG_EDIT_EMAIL} -> "email"
      [] st = LEG_FIELD /\ GetMissing(data) # <<>> -> Head(GetMissing(data))
      [] st = LEG_EDIT_FIELD /\ data.edit_field \in EditTextData
            -> EditTarget(data.edit_field)
      [] OTHER -> "none"

\* C3: in a state of either flow that awaits a text field (first entry or
\* edit), a message the validator of that field rejects leaves the FSM
\* state, the session data (pending queue, edit target) and the user's row
\* unchanged.
C3_RejectedInputChangesNothing ==
    [][LET f == Awaited(fsm_state, fsm_data)
       IN  f \in TextFields /\ IsMessage(ev') /\ ~ValidInput(f, ev')
             => UNCHANGED <<fsm_state, fsm_data, db_user>>
      ]_vars

\* C3 witness: a rejected text in the legacy edit state and one in the fresh
\* flow have been handled
C3_Witness ==
    /\ handler \in {"legacy.process_edit_field", "legacy.process_field_input",
                    "registration.process_edit_email"}
    /\ Awaited(fsm_state, fsm_data) \in TextFields
    /\ IsMessage(ev) /\ ~ValidInput(Awaited(fsm_state, fsm_data), ev)

\* C4: in the legacy flow the pending queue gets shorter only by losing its
\* head in a step whose input was valid for the head and was stored under
\* the key of the head.
C4_QueueShortenedOnlyByAccept ==
    [][fsm_state = LEG_FIELD
       /\ Len(GetMissing(fsm_data')) < Len(GetMissing(fsm_data))
         => LET f == Head(GetMissing(fsm_data))
            IN  /\ GetMissing(fsm_data') = Tail(GetMissing(fsm_data))
                /\ ValidInput(f, ev')
                /\ Stored(db_user', FieldKey(f), NormalizedInput(f, ev'))
      ]_vars

C6_FieldsInOrder ==
    [][fsm_state' # fsm_state =>
        /\ fsm_state' = REG_FIRST_NAME
             => /\ fsm_state = REG_CONTACT
                /\ IsMessage(ev') /\ ev'.contact.user_id = SenderId
        /\ fsm_state' = REG_LAST_NAME
             => fsm_state = REG_FIRST_NAME /\ ValidInput("first_name", ev')
        /\ fsm_state' = REG_GENDER
             => fsm_state = REG_LAST_NAME /\ ValidInput("last_name", ev')
        /\ fsm_state' = REG_BIRTH_DATE
             => fsm_state = REG_GENDER /\ ValidInput("gender", ev')
        /\ fsm_state' = REG_EMAIL
             => fsm_state = REG_BIRTH_DATE /\ ValidInput("birth_date", ev')
        /\ fsm_state' = REG_REVIEW
             => fsm_state = REG_EMAIL /\ ValidInput("email", ev')
      ]_vars

\* C6 witness: the flow has come to the last field, the birth date accepted
C6_Witness ==
    /\ fsm_state = REG_EMAIL
    /\ handler = "registration.process_birth_date"
    /\ db_user.birth_date # NoneDate

\* DD.MM.YYYY text of a stored date <<year, month, day>>
StoredDateText(b) == DateText(b[3], b[2], b[1])

\* field f of the row u is absent, or the live check of f rejects its value
AbsentOrInvalid(f, u) ==
    CASE f \in {"first_name", "last_name"} ->
            \/ ~HasAttr(u, FieldKey(f))
            \/ Falsy(u[FieldKey(f)])
            \/ ~name_check(Strip(u[FieldKey(f)])).ok
      [] f = "gender" -> u.gender \notin {"male", "female"}
      [] f = "birth_date" ->
            \/ u.birth_date = NoneDate
            \/ ~birth_date_check(StoredDateText(u.birth_date)).ok
      [] f = "email" ->
            Falsy(u.email) \/ ~email_check(Strip(u.email)).ok

\* C7: for the user read after the rules were accepted, get_missing_fields
\* returns the fields that are absent or invalid, each once, in the order
\* first_name, last_name, gender, birth_date, email.
C7_MissingFieldsExact ==
    [][handler' = "legacy.process_rules_accept"
         => get_missing_fields(db_user')
              = SelectSeq(FieldOrder, LAMBDA f : AbsentOrInvalid(f, db_user'))
      ]_vars

\* C8: for the user read after the rules were accepted, the probe returns a
\* list, and a field is in it exactly when the live check of the field
\* rejects the stored value.
C8_ProbeAgreesWithLiveCheck ==
    [][handler' = "legacy.process_rules_accept"
         => LET m == get_missing_fields(db_user')
            IN  /\ m # AttributeError
                /\ \A f \in Fields :
                      (\E i \in 1..Len(m) : m[i] = f)
                        <=> AbsentOrInvalid(f, db_user')
      ]_vars

\* C9: accepting the rules in the legacy flow moves to waiting_for_field with
\* a non-empty queue stored, or to waiting_for_review with no queue stored.
C9_RulesAcceptMovesOn ==
    [][handler' = "legacy.process_rules_accept"
         => \/ fsm_state' = LEG_FIELD /\ GetMissing(fsm_data') # <<>>
            \/ fsm_state' = LEG_REVIEW /\ GetMissing(fsm_data') = <<>>
      ]_vars

\* C10: in waiting_for_contact only a message with the sender's own contact
\* stores a phone number and moves to waiting_for_first_name; every other
\* update leaves the state and the stored phone number as they are.
C10_OnlyOwnContactAdvances ==
    [][fsm_state = REG_CONTACT =>
         IF IsMessage(ev') /\ ev'.contact # NoContact
            /\ ev'.contact.user_id = SenderId
         THEN /\ fsm_state' = REG_FIRST_NAME
              /\ db_user'.phone_number # NoneStr
              /\ db_user'.phone_number[1] = "+"
         ELSE /\ fsm_state' = REG_CONTACT
              /\ db_user'.phone_number = db_user.phone_number
      ]_vars

\* C10 witness: somebody else's contact was handled and nothing is stored
C10_Witness ==
    /\ fsm_state = REG_CONTACT
    /\ handler = "registration.process_contact"
    /\ ev.contact.user_id = OtherId
    /\ db_user.phone_number = NoneStr

EditAwaited(st, data) ==
    CASE st = REG_EDIT_FIRST_NAME -> "first_name"
      [] st = REG_EDIT_LAST_NAME -> "last_name"
      [] st = REG_EDIT_GENDER -> "gender"
      [] st = REG_EDIT_BIRTH_DATE -> "birth_date"
      [] st = REG_EDIT_EMAIL -> "email"
      [] st = LEG_EDIT_FIELD /\ data.edit_field \in EditTextData
            -> EditTarget(data.edit_field)
      [] st = LEG_EDIT_FIELD /\ data.edit_field = "edit_gender" -> "gender"
      [] OTHER -> "none"

\* the review state of the flow state st belongs to
ReviewOf(st) == IF st \in LegacyStates THEN LEG_REVIEW ELSE REG_REVIEW

\* C12: in a state of either flow that edits field f, a valid input for f
\* leads to the review state of the flow and leaves the pending queue as it
\* was.
C12_AcceptedEditReturnsToReview ==
    [][LET f == EditAwaited(fsm_state, fsm_data)
       IN  f \in Fields /\ ValidInput(f, ev')
             => /\ fsm_state' = ReviewOf(fsm_state)
                /\ GetMissing(fsm_data') = GetMissing(fsm_data)
      ]_vars

\* the columns of the profile other than the key of field f
OtherColumns(u, f) == DOMAIN u \ {FieldKey(f), "updated_at"}

\* C13: in a state that edits field f a valid input stores the normalized
\* value under the key of f (the latest value wins), and no step taken in
\* that state changes another column of the row.
C13_EditStoresLatestValueOnly ==
    [][LET f == EditAwaited(fsm_state, fsm_data)
       IN  f \in Fields
             => /\ ValidInput(f, ev')
                     => Stored(db_user', FieldKey(f), NormalizedInput(f, ev'))
                /\ \A k \in OtherColumns(db_user, f) :
                      Stored(db_user', k, db_user[k])
      ]_vars

\* C14: in the edit-choice state of either flow edit_cancel leads to the
\* review state of the flow and leaves the row and the session data as
\* they were.
C14_CancelReturnsToReview ==
    [][(/\ fsm_state \in {REG_EDIT_CHOICE, LEG_EDIT_CHOICE}
        /\ IsCallback(ev')
        /\ ev'.data = "edit_cancel")
         => (/\ fsm_state' = ReviewOf(fsm_state)
             /\ fsm_data' = fsm_data
             /\ db_user' = db_user)
      ]_vars

\* a notification choice is being handled in the flow of state st
NotifyStep(st, e) ==
    st \in {REG_NOTIFICATIONS, LEG_NOTIFICATIONS} /\ IsCallback(e)
    /\ e.data \in NotifyData

\* C15: the notification choice stores notifications_allowed = the choice and
\* writes the terminal flag in the same step: is_registered = TRUE in the
\* fresh flow, is_legacy = FALSE in the legacy flow; no step taken in another
\* state changes is_registered or writes is_legacy.
C15_NotificationChoiceWritesTerminalFlag ==
    [][(/\ NotifyStep(fsm_state, ev')
          => (/\ Stored(db_user', "notifications_allowed", ev'.data = "notify_yes")
              /\ fsm_state = REG_NOTIFICATIONS
                   => Stored(db_user', "is_registered", TRUE)
              /\ fsm_state = LEG_NOTIFICATIONS
                   => Stored(db_user', "is_legacy", FALSE))
        /\ ~NotifyStep(fsm_state, ev')
          => (/\ db_user'.is_registered = db_user.is_registered
              /\ "is_legacy" \in DOMAIN db_user' <=> "is_legacy" \in DOMAIN db_user))
      ]_vars

\* the consent of event e, given in state st, and the column of its timestamp
ConsentColumn(st, e) ==
    IF st \in {REG_RULES, LEG_RULES} /\ IsCallback(e) /\ e.data \in RulesData
    THEN "rules_accepted"
    ELSE IF NotifyStep(st, e) THEN "notifications_allowed"
    ELSE "none"
ConsentValue(st, e) ==
    IF ConsentColumn(st, e) = "rules_accepted" THEN TRUE
    ELSE e.data = "notify_yes"
TimestampColumn(c) ==
    IF c = "rules_accepted" THEN "rules_accepted_at"
    ELSE "notifications_allowed_at"

\* C16: in both flows a consent is stored together with its timestamp: the
\* step that handles the rules acceptance leaves rules_accepted = TRUE and a
\* rules_accepted_at in the row, the step that handles the notification
\* choice leaves notifications_allowed = the choice and a
\* notifications_allowed_at.
C16_ConsentStoredWithTimestamp ==
    [][LET c == ConsentColumn(fsm_state, ev')
       IN  c # "none"
             => (/\ Stored(db_user', c, ConsentValue(fsm_state, ev'))
                 /\ TimestampColumn(c) \in DOMAIN db_user')
      ]_vars

\* C17: the step that handles the notification choice clears the session (no
\* state, empty data), and no other step taken in a state of one of the two
\* flows clears it.
C17_SessionClearedExactlyAtTerminal ==
    [][(/\ NotifyStep(fsm_state, ev')
          => (fsm_state' = NoState /\ fsm_data' = EmptyData)
        /\ (fsm_state # NoState /\ ~NotifyStep(fsm_state, ev'))
          => (fsm_state' # NoState /\ (fsm_data' = EmptyData => fsm_data = EmptyData)))
      ]_vars

\* C18: a message without text (a photo) makes no handler raise while a text
\* field is awaited or edited, in the fresh flow and in the legacy flow.
C18_NoHandlerRaises ==
    [][(/\ IsMessage(ev')
        /\ ev'.text = NoneStr
        /\ Awaited(fsm_state, fsm_data) \in TextFields)
          => ~raised'
      ]_vars

\* the update e does not fit what state st awaits: free text while a gender
\* choice is awaited or edited, a gender choice while a text field is
\* awaited or edited, a selection the edit menu does not offer
WrongModality(st, data, e) ==
    \/ /\ IsMessage(e)
       /\ e.text # NoneStr
       /\ \/ st \in {REG_GENDER, REG_EDIT_GENDER}
          \/ Awaited(st, data) = "gender"
          \/ EditAwaited(st, data) = "gender"
    \/ /\ IsCallback(e)
       /\ e.data \in GenderData
       /\ Awaited(st, data) \in TextFields
    \/ /\ IsCallback(e)
       /\ st \in {REG_EDIT_CHOICE, LEG_EDIT_CHOICE}
       /\ e.data \notin EditData \cup {"edit_cancel"}

\* C19: in both flows an update of the wrong modality for the current state
\* leaves the FSM state and the session data as they were.
C19_WrongModalityChangesNothing ==
    [][WrongModality(fsm_state, fsm_data, ev')
         => (fsm_state' = fsm_state /\ fsm_data' = fsm_data)
      ]_vars

C21_MenuSentOncePerCompletedFlow ==
    [][NotifyStep(fsm_state, ev') => menu_sent' = 1]_vars

\* the session and the row of the user with id i
SessionOf(i) ==
    IF from_user = i
    THEN [state |-> fsm_state, data |-> fsm_data, user |-> db_user]
    ELSE other

\* C22: a step that handles an update of one user leaves the session (FSM
\* state, pending queue, edit target) and the row of the other user as they
\* were, whatever the order of the two users' updates.
C22_OtherUserUntouched ==
    [][\A i \in {SenderId, OtherId} :
         from_user # i => SessionOf(i)' = SessionOf(i)
      ]_vars

\* C22 witness: the first user has had their own contact stored, and then
\* the second user has sent the first user's contact, which was turned down
\* and stored on neither row
C22_Witness ==
    /\ other # NoOther
    /\ db_user.id = OtherId
    /\ other.user.id = SenderId
    /\ other.state = REG_FIRST_NAME
    /\ other.user.phone_number = <<"+", "7", "1">>
    /\ handler = "registration.process_contact"
    /\ outcome = "rejected"
    /\ ev.contact.user_id = SenderId
    /\ ev.contact.phone_number = <<"7", "2">>
    /\ db_user.phone_number = NoneStr

\* the field a valid input is stored for in state st
StoredField(st, data) ==
    IF st = REG_GENDER THEN "gender" ELSE Awaited(st, data)

\* C23: while the users table cannot be written, a step that handles a valid
\* input for the awaited field ends with the exception leaving the handler,
\* and the FSM state, the pending queue and the row are as before.
C23_FailedWriteDoesNotAdvance ==
    [][LET f == StoredField(fsm_state, fsm_data)
       IN  (/\ db_down
            /\ db_down'
            /\ f \in Fields
            /\ ValidInput(f, ev'))
             => (/\ raised'
                 /\ fsm_state' = fsm_state
                 /\ GetMissing(fsm_data') = GetMissing(fsm_data)
                 /\ db_user' = db_user)
      ]_vars

\* C23 witness: in the fresh flow the gender was stored, the table went out
\* of reach, and a valid birth date was sent
C23_Witness ==
    /\ db_down
    /\ raised
    /\ outcome = "failed"
    /\ ev.text = DateText(25, 12, 1990)
    /\ handler = "registration.process_birth_date"
    /\ fsm_state = REG_BIRTH_DATE
    /\ db_user.gender = "female"
    /\ db_user.birth_date = NoneDate

\* C24: update_user sets every key of the patch that names an attribute of
\* the row, leaves the row without any attribute it did not have, and changes
\* no attribute the patch does not name, updated_at apart; a key that names
\* no attribute does not keep the other keys from being set.
C24_PatchAppliesKnownKeysOnly ==
    [][(call'.fn = "update_user" /\ db_user # NoUser)
         => LET kw == call'.arg
            IN  /\ DOMAIN db_user' = DOMAIN db_user
                /\ \A k \in DOMAIN kw :
                      k \in DOMAIN db_user => db_user'[k] = kw[k]
                /\ \A k \in DOMAIN db_user \ (DOMAIN kw \cup {"updated_at"}) :
                      db_user'[k] = db_user[k]
      ]_vars

\* C24 witness: a patch with two unknown keys and two known ones was applied
C24_Witness ==
    /\ call.fn = "update_user"
    /\ DOMAIN call.arg = {"first_name_input", "is_legacy", "gender", "email"}
    /\ db_user # NoUser
    /\ db_user.gender = "female"
    /\ db_user.email = <<"a", "@", "b", ".", "a">>
    /\ "is_legacy" \notin DOMAIN db_user

\* the number written by the digits t[i..j]
RECURSIVE Num(_, _, _)
Num(t, i, j) == IF j < i THEN 0 ELSE 10 * Num(t, i, j - 1) + DigitVal(t[j])

\* the date a text of the shape DD.MM.YYYY names, as <<year, month, day>>
EnteredDate(t) == <<Num(t, 7, 10), Num(t, 4, 5), Num(t, 1, 2)>>

MonthLengths(y) ==
    <<31, IF y % 4 = 0 /\ (y % 100 # 0 \/ y % 400 = 0) THEN 29 ELSE 28, 31, 30,
      31, 30, 31, 31, 30, 31, 30, 31>>

InCalendar(b) ==
    b[1] >= 1 /\ b[2] \in 1..12 /\ b[3] >= 1 /\ b[3] <= MonthLengths(b[1])[b[2]]

\* dates compare as the numbers YYYYMMDD
Ordinal(b) == 10000 * b[1] + 100 * b[2] + b[3]

\* shape, calendar, not in the future, and 18 to 100 birthdays passed: born
\* no later than today 18 years ago and later than today 101 years ago
AcceptableBirthDate(t) ==
    /\ DateShape(t)
    /\ InCalendar(EnteredDate(t))
    /\ Ordinal(EnteredDate(t)) <= Ordinal(Today)
    /\ Ordinal(EnteredDate(t)) <= Ordinal(Today) - 18 * 10000
    /\ Ordinal(EnteredDate(t)) > Ordinal(Today) - 101 * 10000

\* C25: while a birth date is awaited or edited, in either flow, a text is
\* accepted exactly when it has the shape DD.MM.YYYY, names a date of the
\* calendar that is not in the future and gives an age from 18 to 100; the
\* accepted date is stored as entered (and the fresh flow goes on to the
\* email); any other text leaves the state, the session data and the row.
C25_BirthDateAcceptedIffValid ==
    [][(Awaited(fsm_state, fsm_data) = "birth_date" /\ IsMessage(ev'))
         => IF AcceptableBirthDate(Strip(ev'.text))
            THEN /\ Stored(db_user', "birth_date", EnteredDate(Strip(ev'.text)))
                 /\ fsm_state = REG_BIRTH_DATE => fsm_state' = REG_EMAIL
            ELSE /\ fsm_state' = fsm_state
                 /\ fsm_data' = fsm_data
                 /\ db_user' = db_user
      ]_vars

\* C25 witness: in the edit state 29.02.2008 was accepted and stored, and
\* 31.02.2000 was then turned down
C25_Witness ==
    /\ inbox = "dates"
    /\ fsm_state = REG_EDIT_BIRTH_DATE
    /\ db_user.birth_date = <<2008, 2, 29>>
    /\ ev.text = DateText(31, 2, 2000)
    /\ handler = "registration.process_edit_birth_date"
    /\ outcome = "rejected"

\* the age the claim describes, for a birth date b = <<year, month, day>>
ClaimedAge(b) ==
    Today[1] - b[1]
    - (IF Today[2] < b[2] \/ (Today[2] = b[2] /\ Today[3] < b[3]) THEN 1 ELSE 0)

\* the text of today's day and month in the year n years back, k days on
BirthdayText(n, k) == DateText(Today[3] + k, Today[2], Today[1] - n)

\* C26: a text that names a date of the calendar is accepted as birth date
\* exactly when today's year minus the birth year, less one if today's
\* (month, day) is before the birth (month, day), is between 18 and 100: the
\* date 18 years before today is accepted and the next day is not, the day
\* after the date 101 years before today is accepted (age 100) and the date
\* 101 years before today is not.
C26_AgeBoundaries ==
    [][(Awaited(fsm_state, fsm_data) = "birth_date" /\ IsMessage(ev'))
         => LET t == Strip(ev'.text)
            IN  /\ (DateShape(t) /\ InCalendar(EnteredDate(t)))
                     => (db_user' # db_user
                           <=> ClaimedAge(EnteredDate(t)) \in 18..100)
                /\ t \in {BirthdayText(18, 0), BirthdayText(101, 1)}
                     => Stored(db_user', "birth_date", EnteredDate(t))
                /\ t \in {BirthdayText(18, 1), BirthdayText(101, 0)}
                     => db_user' = db_user
      ]_vars

\* C26 witness: the date 18 years before today was accepted and stored, and
\* the day after it was then turned down
C26_Witness ==
    /\ inbox = "dates"
    /\ fsm_state = REG_EDIT_BIRTH_DATE
    /\ db_user.birth_date = <<Today[1] - 18, Today[2], Today[3]>>
    /\ ev.text = BirthdayText(18, 1)
    /\ outcome = "rejected"

\* punctuation marks other than the hyphen
PunctuationMarks == {".", "'"}

\* a name is awaited and the update e' is a text message
NameAwaited ==
    /\ Awaited(fsm_state, fsm_data) \in {"first_name", "last_name"}
    /\ IsMessage(ev')
    /\ ev'.text # NoneStr

\* the update was turned down: nothing of the session or the row changed
TurnedDown ==
    /\ outcome' = "rejected"
    /\ fsm_state' = fsm_state
    /\ fsm_data' = fsm_data
    /\ db_user' = db_user

\* C27: in every state of either flow that awaits a first or last name
\* (collection or edit), a text that contains a digit or a punctuation mark
\* other than the hyphen, or that is empty or only white space, is rejected.
C27_NameRejectsDigitsPunctuationBlank ==
    [][NameAwaited
         => LET t == ev'.text
            IN  (\/ \E i \in 1..Len(t) : t[i] \in Digits \cup PunctuationMarks
                 \/ \A i \in 1..Len(t) : t[i] \in Whitespace)
                  => TurnedDown
      ]_vars

\* C27 witness: in the legacy flow the first name was taken, and a last name
\* with a digit was then rejected
C27_Witness ==
    /\ inbox = "names"
    /\ fsm_state = LEG_FIELD
    /\ GetMissing(fsm_data) = <<"last_name">>
    /\ ev.text = <<"a", "1">>
    /\ handler = "legacy.process_field_input"
    /\ outcome = "rejected"

\* C28: in every state that awaits a name, a text that (after the
\* surrounding white space is stripped) contains a character other than a
\* Latin or Cyrillic letter, the space and the hyphen is rejected; so is a
\* text with a tab or a line break between letters.
C28_NameAcceptsLettersSpaceHyphenOnly ==
    [][NameAwaited
         => LET t == Strip(ev'.text)
            IN  (\E i \in 1..Len(t) :
                    t[i] \notin LatinLetters \cup CyrillicLetters \cup {" ", "-"})
                  => TurnedDown
      ]_vars

\* the shape of an email: one "@", a non-empty local part before it and
\* after it a domain with a "." that has a non-empty part on each side
EmailShape(t) ==
    LET ats == {i \in 1..Len(t) : t[i] = "@"}
    IN  /\ Cardinality(ats) = 1
        /\ LET at == CHOOSE i \in ats : TRUE
               local == SubSeq(t, 1, at - 1)
               domain == SubSeq(t, at + 1, Len(t))
           IN  /\ local # <<>>
               /\ \E p \in 1..Len(domain) :
                     /\ domain[p] = "."
                     /\ SubSeq(domain, 1, p - 1) # <<>>
                     /\ SubSeq(domain, p + 1, Len(domain)) # <<>>

\* C29: in every state of either flow that awaits the email (collection or
\* edit), a text is accepted, and stored as entered, exactly when it has one
\* "@" with a non-empty local part before it and a domain after it with a
\* "." that has a non-empty part on each side; every other text, the empty
\* one included, is rejected and changes nothing.
C29_EmailAcceptedIffShaped ==
    [][(/\ Awaited(fsm_state, fsm_data) = "email"
        /\ IsMessage(ev')
        /\ ev'.text # NoneStr)
         => IF EmailShape(Strip(ev'.text))
            THEN /\ outcome' = "accepted"
                 /\ Stored(db_user', "email", Strip(ev'.text))
            ELSE TurnedDown
      ]_vars

\* C29 witness: in the fresh flow an email was accepted and stored, and a
\* text with two "@" was then rejected
C29_Witness ==
    /\ inbox = "emails"
    /\ fsm_state \in RegistrationStates
    /\ db_user.email = <<"a", "@", "a", ".", "a">>
    /\ ev.text = <<"a", "@", "@", "a", ".", "a">>
    /\ outcome = "rejected"

\* the row u holds the accepted rules and a valid value of every field of the
\* profile
ProfileComplete(u) ==
    /\ u # NoUser
    /\ u.rules_accepted
    /\ u.phone_number # NoneStr
    /\ \A f \in {"first_name", "last_name"} :
          /\ FieldKey(f) \in DOMAIN u
          /\ u[FieldKey(f)] # NoneStr
          /\ name_check(u[FieldKey(f)]).ok
    /\ u.gender \in {"male", "female"}
    /\ u.birth_date # NoneDate
    /\ birth_date_check(StoredDateText(u.birth_date)).ok
    /\ u.email # NoneStr
    /\ email_check(u.email).ok

\* the states of the fresh flow from the review onward
ReviewOnward ==
    {REG_REVIEW, REG_EDIT_CHOICE, REG_EDIT_FIRST_NAME, REG_EDIT_LAST_NAME,
     REG_EDIT_GENDER, REG_EDIT_BIRTH_DATE, REG_EDIT_EMAIL, REG_NOTIFICATIONS}

C32_StoredPhoneStartsWithPlus ==
    [][IF handler' = "registration.process_contact" /\ outcome' = "accepted"
       THEN LET p == ev'.contact.phone_number
                s == db_user'.phone_number
            IN  /\ s # NoneStr
                /\ s[1] = "+"
                /\ p[1] = "+" => s = p
                /\ p[1] # "+" => (s = <<"+">> \o p /\ s[2] # "+")
                /\ normalize_phone(s) = s
       ELSE db_user'.phone_number = db_user.phone_number
      ]_vars

\* C32 witness: a contact with the number 71 was accepted and +71 is stored
C32_Witness ==
    /\ inbox = "phones"
    /\ fsm_state = REG_FIRST_NAME
    /\ handler = "registration.process_contact"
    /\ outcome = "accepted"
    /\ ev.contact.phone_number = <<"7", "1">>
    /\ db_user.phone_number = <<"+", "7", "1">>

\* the name s has no white space at its ends, no white space but the space
\* and no two spaces in a row
NormalizedName(s) ==
    /\ s # <<>> => (s[1] \notin Whitespace /\ s[Len(s)] \notin Whitespace)
    /\ \A i \in 1..Len(s) : s[i] \in Whitespace => s[i] = " "
    /\ \A i \in 1..(Len(s) - 1) : ~(s[i] \in Whitespace /\ s[i + 1] \in Whitespace)

\* C33: after a name was accepted, in either flow, the row holds under the
\* key of that name a value without white space at its ends and without a
\* run of two or more white-space characters (each run is one space), and
\* normalizing that value again returns it.
C33_StoredNameIsNormalized ==
    [][(NameAwaited /\ outcome' = "accepted")
         => LET k == FieldKey(Awaited(fsm_state, fsm_data))
            IN  /\ k \in DOMAIN db_user'
                /\ NormalizedName(db_user'[k])
                /\ CleanName(db_user'[k]) = db_user'[k]
      ]_vars

\* the place of field f in the catalog
CatalogIndex(f) == CHOOSE i \in 1..Len(FieldOrder) : FieldOrder[i] = f

\* q is a subsequence of the catalog without duplicates
CatalogSubsequence(q) ==
    /\ \A i \in 1..Len(q) : q[i] \in Fields
    /\ \A i, j \in 1..Len(q) :
          i < j => CatalogIndex(q[i]) < CatalogIndex(q[j])

RECURSIVE SkipUnknown(_)
SkipUnknown(q) ==
    IF q # <<>> /\ Head(q) \notin Fields THEN SkipUnknown(Tail(q)) ELSE q

C36_FlowReachesTerminal ==
    (fsm_state \in RegistrationStates \cup LegacyStates) ~> (fsm_state = NoState)

\* the session holds an edit target exactly in waiting_for_edit_field, and
\* the target is then a field of the edit menu
EditTargetInPlace(st, data) ==
    /\ data.edit_field # NoKey <=> st = LEG_EDIT_FIELD
    /\ st = LEG_EDIT_FIELD => data.edit_field \in EditData

\* C37: a step of the legacy flow taken from a session that holds an edit
\* target exactly in waiting_for_edit_field (one of the five fields of the
\* edit menu) leaves such a session: no edit target remains once the flow is
\* out of waiting_for_edit_field.
C37_EditTargetOnlyWhileEditing ==
    [][(fsm_state \in LegacyStates /\ EditTargetInPlace(fsm_state, fsm_data))
         => EditTargetInPlace(fsm_state', fsm_data')
      ]_vars

\* C38: in waiting_for_edit_field of the legacy flow, with the edit target
\* one of the five fields, a step that changes the user's row changes the
\* column of that field (and the update time) only; a gender button pressed
\* while a text field is edited leaves the stored gender as it is.
C38_EditChangesTargetOnly ==
    [][(/\ fsm_state = LEG_EDIT_FIELD
        /\ EditAwaited(fsm_state, fsm_data) \in Fields
        /\ db_user' # db_user)
         => \A k \in OtherColumns(db_user, EditAwaited(fsm_state, fsm_data)) :
               db_user'[k] = db_user[k]
      ]_vars

\* the field a state of either flow takes an input for, first entry or edit
FieldTaken(st, data) ==
    IF st = REG_GENDER THEN "gender"
    ELSE IF Awaited(st, data) # "none" THEN Awaited(st, data)
    ELSE EditAwaited(st, data)

\* the update is a text message or a gender choice
TextOrChoice(e) ==
    \/ IsMessage(e) /\ e.text # NoneStr /\ e.contact = NoContact
    \/ IsCallback(e) /\ e.data \in GenderData

\* C39: in every state of the fresh and of the legacy flow that takes an
\* input for a field f (first entry or edit), a text or a gender choice has
\* one and the same effect whatever the flow: if f accepts it, the row gets
\* its normalized value under the key of f and nothing else changes in the
\* row; if not, row, state and session data stay as they are.  And the
\* review buttons lead to the notification state and to the edit menu of the
\* flow.
C39_FlowsTreatInputsAlike ==
    [][(/\ (FieldTaken(fsm_state, fsm_data) \in Fields /\ TextOrChoice(ev'))
          => LET f == FieldTaken(fsm_state, fsm_data)
             IN  IF ValidInput(f, ev')
                 THEN db_user' = update_user(db_user,
                         [k \in {FieldKey(f)} |-> NormalizedInput(f, ev')])
                 ELSE (/\ db_user' = db_user
                       /\ fsm_state' = fsm_state
                       /\ fsm_data' = fsm_data)
        /\ (fsm_state \in {REG_REVIEW, LEG_REVIEW} /\ IsCallback(ev')
            /\ ev'.data = "review_correct")
          => fsm_state' = (IF fsm_state = REG_REVIEW THEN REG_NOTIFICATIONS
                           ELSE LEG_NOTIFICATIONS)
        /\ (fsm_state \in {REG_REVIEW, LEG_REVIEW} /\ IsCallback(ev')
            /\ ev'.data = "review_edit")
          => fsm_state' = (IF fsm_state = REG_REVIEW THEN REG_EDIT_CHOICE
                           ELSE LEG_EDIT_CHOICE))
      ]_vars

\* an update of one of the flows: a button of the rules, gender, review,
\* edit or notification keyboards, a shared contact, or a text other than
\* the /start command
FlowEvent(e) ==
    \/ IsCallback(e) /\ e.data \in RulesData \cup GenderData \cup ReviewData
                                  \cup EditData \cup NotifyData
    \/ IsMessage(e) /\ e # StartCommand

\* C40: once the session holds no state, an update of the flows delivered
\* again is taken by no handler: the stored row keeps every field, and the
\* session stays without a state and with the data it had.
C40_FlowEventsAfterEndChangeNothing ==
    [][(fsm_state = NoState /\ FlowEvent(ev'))
        => (/\ db_user' = db_user
            /\ fsm_state' = NoState
            /\ fsm_data' = fsm_data)]_vars

\* a notification choice delivered to a session without a state, whose row
\* has its gender, birth date and email, and left unhandled
C40_Witness ==
    /\ fsm_state = NoState
    /\ IsCallback(ev) /\ ev.data \in NotifyData
    /\ handler = "none"
    /\ outcome = "ignored"
    /\ db_user # NoUser
    /\ db_user.gender \in {"male", "female"}
    /\ db_user.birth_date # NoneDate
    /\ db_user.email # NoneStr

====
